---------------------------- MODULE Spec2Model ----------------------------
(***************************************************************************)
(* A model of the deduplication engine of daily-briefing (src/src/dedup.py).*)
(*                                                                         *)
(* Text is modelled as a sequence of one-character strings, so that        *)
(* lower(), startswith(), rstrip(), split() and the similarity ratio are   *)
(* computed on the characters as the code computes them.                   *)
(***************************************************************************)
EXTENDS Integers, Sequences, FiniteSets, TLC

(***************************************************************************)
(* Text helpers (Python str methods used by dedup.py and urllib.parse).    *)
(***************************************************************************)
EmptyStr == << >>

UpperChars == <<"A", "B", "C", "D", "E", "F", "G", "H", "I", "J", "K", "L", "M",
                "N", "O", "P", "Q", "R", "S", "T", "U", "V", "W", "X", "Y", "Z">>

LowerChars == <<"a", "b", "c", "d", "e", "f", "g", "h", "i", "j", "k", "l", "m",
                "n", "o", "p", "q", "r", "s", "t", "u", "v", "w", "x", "y", "z">>

Digits == {"0", "1", "2", "3", "4", "5", "6", "7", "8", "9"}

Range(s) == {s[i] : i \in DOMAIN s}

IsAlpha(c) == c \in Range(UpperChars) \cup Range(LowerChars)

\* str.lower() on one character
LowerChar(c) ==
    IF c \in Range(UpperChars)
    THEN LowerChars[CHOOSE i \in DOMAIN UpperChars : UpperChars[i] = c]
    ELSE c

\* str.lower()
Lower(s) == [i \in DOMAIN s |-> LowerChar(s[i])]

\* s[i:] with a 0-based Python index i
From(s, i) == SubSeq(s, i + 1, Len(s))

\* s[:i] with a 0-based Python index i
Upto(s, i) == SubSeq(s, 1, i)

\* str.find(c): the 0-based index of the first c, or -1
Find(s, c) ==
    IF c \in Range(s)
    THEN (CHOOSE i \in DOMAIN s : s[i] = c /\ \A j \in 1..(i - 1) : s[j] # c) - 1
    ELSE -1

\* str.rfind(c): the 0-based index of the last c, or -1
RFind(s, c) ==
    IF c \in Range(s)
    THEN (CHOOSE i \in DOMAIN s : s[i] = c /\ \A j \in (i + 1)..Len(s) : s[j] # c) - 1
    ELSE -1

\* str.startswith(p)
StartsWith(s, p) == Len(s) >= Len(p) /\ SubSeq(s, 1, Len(p)) = p

\* str.rstrip(c): every trailing c is removed
RECURSIVE RStrip(_, _)
RStrip(s, c) ==
    IF Len(s) > 0 /\ s[Len(s)] = c THEN RStrip(SubSeq(s, 1, Len(s) - 1), c) ELSE s

\* str.split(c): the pieces between the occurrences of c
RECURSIVE Split(_, _)
Split(s, c) ==
    IF Find(s, c) = -1 THEN <<s>>
    ELSE <<Upto(s, Find(s, c))>> \o Split(From(s, Find(s, c) + 1), c)

\* c.join(pieces)
RECURSIVE Join(_, _)
Join(pieces, c) ==
    IF Len(pieces) = 0 THEN EmptyStr
    ELSE IF Len(pieces) = 1 THEN pieces[1]
    ELSE pieces[1] \o <<c>> \o Join(Tail(pieces), c)

(***************************************************************************)
(* normalize_url (dedup.py 26-39) over urllib.parse.  The URLs of the      *)
(* model use letters, digits and the delimiters : / ? # & = @ . - _ only,  *)
(* for which percent-decoding and quote_plus are the identity; ';', '[',   *)
(* '%', '+' and white space do not occur in them.                          *)
(***************************************************************************)
TRACKING_PARAMS ==
    { <<"u", "t", "m", "_", "s", "o", "u", "r", "c", "e">>,
      <<"u", "t", "m", "_", "m", "e", "d", "i", "u", "m">>,
      <<"u", "t", "m", "_", "c", "a", "m", "p", "a", "i", "g", "n">>,
      <<"u", "t", "m", "_", "t", "e", "r", "m">>,
      <<"u", "t", "m", "_", "c", "o", "n", "t", "e", "n", "t">>,
      <<"r", "e", "f">>,
      <<"s", "o", "u", "r", "c", "e">>,
      <<"f", "b", "c", "l", "i", "d">>,
      <<"g", "c", "l", "i", "d">>,
      <<"m", "c", "_", "c", "i", "d">>,
      <<"m", "c", "_", "e", "i", "d">> }

\* urllib.parse.scheme_chars
SchemeChars == Range(UpperChars) \cup Range(LowerChars) \cup Digits \cup {"+", "-", "."}

\* urlsplit, first step: the text after "scheme:", or the whole text if it
\* has no scheme
AfterScheme(url) ==
    LET i == Find(url, ":")
    IN  IF i > 0 /\ IsAlpha(url[1]) /\ \A k \in 1..i : url[k] \in SchemeChars
        THEN From(url, i + 1)
        ELSE url

\* _splitnetloc(url, 2): the 0-based index of the first of / ? # at or after
\* index 2, or len(url)
NetlocEnd(rest) ==
    LET hits == {k \in 3..Len(rest) : rest[k] \in {"/", "?", "#"}}
    IN  IF hits = {} THEN Len(rest)
        ELSE (CHOOSE k \in hits : \A m \in hits : k <= m) - 1

HasNetloc(rest) == Len(rest) >= 2 /\ rest[1] = "/" /\ rest[2] = "/"

\* urlparse(url): the components normalize_url reads
UrlParse(url) ==
    LET rest    == AfterScheme(url)
        netloc  == IF HasNetloc(rest) THEN SubSeq(rest, 3, NetlocEnd(rest)) ELSE EmptyStr
        tail    == IF HasNetloc(rest) THEN From(rest, NetlocEnd(rest)) ELSE rest
        nofrag  == IF Find(tail, "#") = -1 THEN tail ELSE Upto(tail, Find(tail, "#"))
        path    == IF Find(nofrag, "?") = -1 THEN nofrag ELSE Upto(nofrag, Find(nofrag, "?"))
        query   == IF Find(nofrag, "?") = -1 THEN EmptyStr
                   ELSE From(nofrag, Find(nofrag, "?") + 1)
    IN  [netloc |-> netloc, path |-> path, query |-> query]

\* ParseResult.hostname (None is read as "" by `or ""`)
Hostname(netloc) ==
    LET hostinfo == From(netloc, RFind(netloc, "@") + 1)
        host     == IF Find(hostinfo, ":") = -1 THEN hostinfo
                    ELSE Upto(hostinfo, Find(hostinfo, ":"))
    IN  Lower(host)

\* parse_qsl(query, keep_blank_values=False): the (name, value) pairs, in
\* order; a field without '=' or with an empty value is dropped
RECURSIVE QslOf(_)
QslOf(fields) ==
    IF Len(fields) = 0 THEN << >>
    ELSE LET f  == Head(fields)
             eq == Find(f, "=")
         IN  IF eq = -1 \/ Len(From(f, eq + 1)) = 0
             THEN QslOf(Tail(fields))
             ELSE << <<Upto(f, eq), From(f, eq + 1)>> >> \o QslOf(Tail(fields))

ParseQsl(query) == IF Len(query) = 0 THEN << >> ELSE QslOf(Split(query, "&"))

\* the keys of a parse_qs dict in insertion order (order of first appearance)
RECURSIVE KeyOrder(_, _)
KeyOrder(pairs, seenKeys) ==
    IF Len(pairs) = 0 THEN << >>
    ELSE IF Head(pairs)[1] \in seenKeys THEN KeyOrder(Tail(pairs), seenKeys)
    ELSE <<Head(pairs)[1]>> \o KeyOrder(Tail(pairs), seenKeys \cup {Head(pairs)[1]})

\* mutant: only the first value of a key is written
FieldsOfKey_First(pairs, k) ==
    LET mine == SelectSeq(pairs, LAMBDA p : p[1] = k)
    IN  IF Len(mine) = 0 THEN << >> ELSE <<k \o <<"=">> \o mine[1][2]>>

\* "k=v" for every value of key k, in order (urlencode with doseq=True)
RECURSIVE FieldsOfKey(_, _)
FieldsOfKey(pairs, k) ==
    IF Len(pairs) = 0 THEN << >>
    ELSE IF Head(pairs)[1] = k
         THEN <<k \o <<"=">> \o Head(pairs)[2]>> \o FieldsOfKey(Tail(pairs), k)
         ELSE FieldsOfKey(Tail(pairs), k)

RECURSIVE EncodeKeys(_, _)
EncodeKeys(keys, pairs) ==
    IF Len(keys) = 0 THEN << >>
    ELSE FieldsOfKey(pairs, Head(keys)) \o EncodeKeys(Tail(keys), pairs)

\* mutant: the key is compared as it is written
IsTracking_CaseSensitive(k) == k \in TRACKING_PARAMS

\* the filter of dedup.py line 35
IsTracking(k) == Lower(k) \in TRACKING_PARAMS

\* select the keys that are kept
RECURSIVE KeepKeys(_)
KeepKeys(keys) ==
    IF Len(keys) = 0 THEN << >>
    ELSE IF IsTracking(Head(keys)) THEN KeepKeys(Tail(keys))
    ELSE <<Head(keys)>> \o KeepKeys(Tail(keys))

\* dedup.py lines 34-36: parse_qs, filter, urlencode
CleanQuery(query) ==
    LET pairs == ParseQsl(query)
    IN  Join(EncodeKeys(KeepKeys(KeyOrder(pairs, {})), pairs), "&")

\* mutant: the host is kept as it is
StripWww_Keep(host) == host

\* dedup.py lines 30-32
StripWww(host) ==
    IF StartsWith(host, <<"w", "w", "w", ".">>) THEN From(host, 4) ELSE host

\* mutant: the path is kept as it is
StripSlash_Keep(path) == path

\* mutant: one trailing slash is removed
StripSlash_One(path) ==
    IF Len(path) > 0 /\ path[Len(path)] = "/" THEN Upto(path, Len(path) - 1) ELSE path

\* dedup.py line 38
StripSlash(path) == RStrip(path, "/")

\* urlunparse(("", host, path, "", query, ""))
UrlUnparse(host, path, query) ==
    LET p   == IF Len(host) > 0 /\ Len(path) > 0 /\ path[1] # "/"
               THEN <<"/">> \o path ELSE path
        url == IF Len(host) > 0 THEN <<"/", "/">> \o host \o p ELSE path
    IN  IF Len(query) > 0 THEN url \o <<"?">> \o query ELSE url

normalize_url(url) ==
    LET parsed == UrlParse(url)
    IN  UrlUnparse(StripWww(Hostname(parsed.netloc)),
                   StripSlash(parsed.path),
                   CleanQuery(parsed.query))


(***************************************************************************)
(* _titles_similar (dedup.py 42-44): difflib.SequenceMatcher(None, a, b)   *)
(* .ratio() >= threshold on the lower-cased titles.  ratio() is 2*M/T,     *)
(* with T the total length and M the size of the matching blocks found by  *)
(* the longest-match recursion.  The titles of the model are shorter than  *)
(* 200 characters, below which difflib's autojunk heuristic is inactive.   *)
(***************************************************************************)
ThresholdNum == 9

ThresholdDen == 10

\* the length of the common run of a from i and b from j inside the windows
RECURSIVE RunLen(_, _, _, _, _, _)
RunLen(a, b, i, j, ahi, bhi) ==
    IF i <= ahi /\ j <= bhi /\ a[i] = b[j]
    THEN 1 + RunLen(a, b, i + 1, j + 1, ahi, bhi)
    ELSE 0

\* find_longest_match(alo, ahi, blo, bhi), windows given 1-based and
\* inclusive: <<i, j, k>> with k maximal, then i minimal, then j minimal;
\* k = 0 when no character matches
FindLongestMatch(a, b, alo, ahi, blo, bhi) ==
    LET cand == {<<i, j>> \in (alo..ahi) \X (blo..bhi) : a[i] = b[j]}
        len(c) == RunLen(a, b, c[1], c[2], ahi, bhi)
    IN  IF cand = {} THEN <<alo, blo, 0>>
        ELSE LET best == CHOOSE c \in cand :
                           \A d \in cand :
                              \/ len(c) > len(d)
                              \/ /\ len(c) = len(d)
                                 /\ \/ c[1] < d[1]
                                    \/ c[1] = d[1] /\ c[2] <= d[2]
             IN  <<best[1], best[2], len(best)>>

\* get_matching_blocks: the total size of the blocks, found by matching the
\* longest block and then the windows to its left and to its right
RECURSIVE MatchSize(_, _, _, _, _, _)
MatchSize(a, b, alo, ahi, blo, bhi) ==
    IF alo > ahi \/ blo > bhi THEN 0
    ELSE LET m == FindLongestMatch(a, b, alo, ahi, blo, bhi)
         IN  IF m[3] = 0 THEN 0
             ELSE m[3] + MatchSize(a, b, alo, m[1] - 1, blo, m[2] - 1)
                       + MatchSize(a, b, m[1] + m[3], ahi, m[2] + m[3], bhi)

\* mutant: the threshold must be exceeded
RatioReaches_Strict(a, b) ==
    LET total == Len(a) + Len(b)
    IN  IF total = 0 THEN TRUE
        ELSE 2 * MatchSize(a, b, 1, Len(a), 1, Len(b)) * ThresholdDen > ThresholdNum * total

\* ratio() >= 0.9, in integers: 2*M/T >= 9/10; ratio() is 1.0 when T = 0
RatioReaches(a, b) ==
    LET total == Len(a) + Len(b)
    IN  IF total = 0 THEN TRUE
        ELSE 2 * MatchSize(a, b, 1, Len(a), 1, Len(b)) * ThresholdDen >= ThresholdNum * total

titles_similar(a, b) == RatioReaches(Lower(a), Lower(b))


(***************************************************************************)
(* text_utils.py: normalize_title, extract_keywords, keyword_similarity.   *)
(* The titles of the model are ASCII with the space as their only white    *)
(* space, so \s is the space, \w is a letter, a digit or '_', and of the   *)
(* separators of a source suffix (hyphen, en dash, em dash, bar) only '-' *)
(* and '|' occur.                                                          *)
(***************************************************************************)
\* text_utils.py 8-22
STOP_WORDS ==
    { <<"a">>, <<"a", "b", "o", "u", "t">>, <<"a", "b", "o", "v", "e">>,
      <<"a", "c", "c", "o", "r", "d", "i", "n", "g">>, <<"a", "f", "t", "e", "r">>,
      <<"a", "g", "a", "i", "n">>, <<"a", "l", "l">>, <<"a", "l", "s", "o">>, <<"a", "n">>,
      <<"a", "n", "d">>, <<"a", "n", "y">>, <<"a", "r", "e">>, <<"a", "s">>, <<"a", "t">>,
      <<"b", "e">>, <<"b", "e", "e", "n">>, <<"b", "e", "f", "o", "r", "e">>,
      <<"b", "e", "i", "n", "g">>, <<"b", "e", "t", "w", "e", "e", "n">>, <<"b", "o", "t", "h">>,
      <<"b", "u", "t">>, <<"b", "y">>, <<"c", "a", "n">>, <<"c", "o", "u", "l", "d">>,
      <<"d", "i", "d">>, <<"d", "o">>, <<"d", "o", "e", "s">>, <<"d", "u", "r", "i", "n", "g">>,
      <<"e", "a", "c", "h">>, <<"e", "v", "e", "r", "y">>, <<"f", "e", "w">>, <<"f", "o", "r">>,
      <<"f", "r", "o", "m">>, <<"h", "a", "d">>, <<"h", "a", "s">>, <<"h", "a", "v", "e">>,
      <<"h", "e">>, <<"h", "e", "r">>, <<"h", "e", "r", "e">>, <<"h", "i", "m">>,
      <<"h", "i", "s">>, <<"h", "o", "w">>, <<"i">>, <<"i", "f">>, <<"i", "n">>,
      <<"i", "n", "t", "o">>, <<"i", "s">>, <<"i", "t">>, <<"i", "t", "s">>,
      <<"j", "u", "s", "t">>, <<"m", "a", "n", "y">>, <<"m", "a", "y">>, <<"m", "e">>,
      <<"m", "i", "g", "h", "t">>, <<"m", "o", "r", "e">>, <<"m", "o", "s", "t">>,
      <<"m", "u", "c", "h">>, <<"m", "u", "s", "t">>, <<"m", "y">>, <<"n", "e", "e", "d">>,
      <<"n", "e", "w">>, <<"n", "o">>, <<"n", "o", "r">>, <<"n", "o", "t">>, <<"n", "o", "w">>,
      <<"o", "f">>, <<"o", "f", "f">>, <<"o", "n">>, <<"o", "n", "l", "y">>, <<"o", "r">>,
      <<"o", "t", "h", "e", "r">>, <<"o", "u", "r">>, <<"o", "u", "t">>, <<"o", "v", "e", "r">>,
      <<"o", "w", "n">>, <<"r", "e", "p", "o", "r", "t">>, <<"r", "e", "p", "o", "r", "t", "s">>,
      <<"s", "a", "i", "d">>, <<"s", "a", "m", "e">>, <<"s", "a", "y", "s">>,
      <<"s", "h", "a", "l", "l">>, <<"s", "h", "e">>, <<"s", "h", "o", "u", "l", "d">>,
      <<"s", "o">>, <<"s", "o", "m", "e">>, <<"s", "u", "c", "h">>, <<"t", "h", "a", "n">>,
      <<"t", "h", "a", "t">>, <<"t", "h", "e">>, <<"t", "h", "e", "i", "r">>,
      <<"t", "h", "e", "m">>, <<"t", "h", "e", "n">>, <<"t", "h", "e", "s", "e">>,
      <<"t", "h", "e", "y">>, <<"t", "h", "i", "s">>, <<"t", "h", "o", "s", "e">>,
      <<"t", "h", "r", "o", "u", "g", "h">>, <<"t", "o">>, <<"t", "o", "o">>,
      <<"u", "n", "d", "e", "r">>, <<"u", "p">>, <<"u", "s">>, <<"v", "e", "r", "y">>,
      <<"v", "i", "a">>, <<"w", "a", "s">>, <<"w", "e">>, <<"w", "e", "r", "e">>,
      <<"w", "h", "a", "t">>, <<"w", "h", "e", "n">>, <<"w", "h", "e", "r", "e">>,
      <<"w", "h", "i", "c", "h">>, <<"w", "h", "o">>, <<"w", "h", "o", "m">>, <<"w", "h", "y">>,
      <<"w", "i", "l", "l">>, <<"w", "i", "t", "h">>, <<"w", "o", "u", "l", "d">>,
      <<"y", "o", "u">>, <<"y", "o", "u", "r">> }

\* the alternatives of _BRACKET_NOISE_RE (updated? is update or updated)
BracketWords ==
    { <<"u", "p", "d", "a", "t", "e">>, <<"u", "p", "d", "a", "t", "e", "d">>,
      <<"b", "r", "e", "a", "k", "i", "n", "g">>,
      <<"e", "x", "c", "l", "u", "s", "i", "v", "e">>, <<"l", "i", "v", "e">>,
      <<"d", "e", "v", "e", "l", "o", "p", "i", "n", "g">>, <<"v", "i", "d", "e", "o">>,
      <<"p", "o", "d", "c", "a", "s", "t">>, <<"o", "p", "i", "n", "i", "o", "n">> }

\* the one-word alternatives of _NOISE_PREFIX_RE; just\s+in is JustIn
PrefixWords ==
    { <<"b", "r", "e", "a", "k", "i", "n", "g">>, <<"u", "p", "d", "a", "t", "e">>,
      <<"u", "p", "d", "a", "t", "e", "d">>, <<"e", "x", "c", "l", "u", "s", "i", "v", "e">>,
      <<"o", "p", "i", "n", "i", "o", "n">>, <<"a", "n", "a", "l", "y", "s", "i", "s">>,
      <<"r", "e", "p", "o", "r", "t">>, <<"w", "a", "t", "c", "h">>, <<"l", "i", "v", "e">>,
      <<"d", "e", "v", "e", "l", "o", "p", "i", "n", "g">>, <<"a", "l", "e", "r", "t">> }

\* the alternatives of _SOURCE_SUFFIX_RE, each as its words (\s+ between)
SourceNames ==
    { <<<<"b", "l", "o", "o", "m", "b", "e", "r", "g">>>>,
      <<<<"r", "e", "u", "t", "e", "r", "s">>>>,
      <<<<"c", "n", "b", "c">>>>,
      <<<<"y", "a", "h", "o", "o">>>>,
      <<<<"t", "h", "e">>, <<"v", "e", "r", "g", "e">>>>,
      <<<<"a", "r", "s">>, <<"t", "e", "c", "h", "n", "i", "c", "a">>>>,
      <<<<"t", "e", "c", "h", "c", "r", "u", "n", "c", "h">>>>,
      <<<<"w", "i", "r", "e", "d">>>>,
      <<<<"b", "b", "c">>>>,
      <<<<"c", "n", "n">>>>,
      <<<<"n", "y", "t">>>>,
      <<<<"w", "s", "j">>>>,
      <<<<"s", "e", "e", "k", "i", "n", "g">>, <<"a", "l", "p", "h", "a">>>>,
      <<<<"m", "a", "r", "k", "e", "t", "w", "a", "t", "c", "h">>>>,
      <<<<"i", "n", "v", "e", "s", "t", "i", "n", "g", ".", "c", "o", "m">>>>,
      <<<<"t", "h", "e">>, <<"h", "a", "c", "k", "e", "r">>, <<"n", "e", "w", "s">>>>,
      <<<<"b", "l", "e", "e", "p", "i", "n", "g", "c", "o", "m", "p", "u", "t", "e", "r">>>> }


IsSpace(c) == c = " "

\* \w
IsWordChar(c) == IsAlpha(c) \/ c \in Digits \/ c = "_"

\* the 1-based index of the first character at or after i that is no white
\* space, or len(s) + 1
RECURSIVE SkipSpaces(_, _)
SkipSpaces(s, i) ==
    IF i <= Len(s) /\ IsSpace(s[i]) THEN SkipSpaces(s, i + 1) ELSE i

\* str.split(): the maximal runs of characters that are no white space
RECURSIVE Words(_)
Words(s) ==
    LET i == SkipSpaces(s, 1)
        stops == {k \in i..Len(s) : IsSpace(s[k])}
        j == IF stops = {} THEN Len(s) + 1
             ELSE CHOOSE k \in stops : \A m \in stops : k <= m
    IN  IF i > Len(s) THEN << >>
        ELSE <<SubSeq(s, i, j - 1)>> \o Words(SubSeq(s, j, Len(s)))

\* _BRACKET_NOISE_RE matches at the head of s: the length of the match, or 0
BracketMatch(s) ==
    LET close == Find(s, "]")
    IN  IF Len(s) > 0 /\ s[1] = "[" /\ close > 0
           /\ Lower(SubSeq(s, 2, close)) \in BracketWords
        THEN close + 1
        ELSE 0

\* _BRACKET_NOISE_RE.sub("", title), line 52
RECURSIVE BracketNoiseSub(_)
BracketNoiseSub(s) ==
    IF Len(s) = 0 THEN s
    ELSE IF BracketMatch(s) > 0 THEN BracketNoiseSub(From(s, BracketMatch(s)))
    ELSE <<Head(s)>> \o BracketNoiseSub(Tail(s))

\* just\s+in
JustIn(x) ==
    /\ Len(x) >= 7
    /\ SubSeq(x, 1, 4) = <<"j", "u", "s", "t">>
    /\ SubSeq(x, Len(x) - 1, Len(x)) = <<"i", "n">>
    /\ \A k \in 5..(Len(x) - 2) : IsSpace(x[k])

\* _NOISE_PREFIX_RE.sub("", text), line 53: a noise word at the very start,
\* white space, one of : | -, white space
NoisePrefixSub(s) ==
    LET ends == {p \in 1..Len(s) :
                    /\ \/ Lower(SubSeq(s, 1, p)) \in PrefixWords
                       \/ JustIn(Lower(SubSeq(s, 1, p)))
                    /\ SkipSpaces(s, p + 1) <= Len(s)
                    /\ s[SkipSpaces(s, p + 1)] \in {":", "|", "-"}}
    IN  IF ends = {} THEN s
        ELSE LET p == CHOOSE q \in ends : TRUE
             IN  From(s, SkipSpaces(s, SkipSpaces(s, p + 1) + 1) - 1)

\* _SOURCE_SUFFIX_RE.sub("", text), line 54: white space, a separator, white
\* space, a source name and white space up to the end
SourceSuffixSub(s) ==
    LET seps == {d \in 1..Len(s) :
                    /\ s[d] \in {"-", "|"}
                    /\ Words(Lower(From(s, d))) \in SourceNames}
    IN  IF seps = {} THEN s
        ELSE RStrip(Upto(s, (CHOOSE d \in seps : TRUE) - 1), " ")

\* re.sub(r"[^\w\s]", "", text), line 56
RECURSIVE KeepWordChars(_)
KeepWordChars(s) ==
    IF Len(s) = 0 THEN s
    ELSE IF IsWordChar(Head(s)) \/ IsSpace(Head(s))
         THEN <<Head(s)>> \o KeepWordChars(Tail(s))
         ELSE KeepWordChars(Tail(s))

\* re.sub(r"\s+", " ", text).strip().lower(), line 58
Collapse(s) == Lower(Join(Words(s), " "))

normalize_title(title) ==
    Collapse(KeepWordChars(SourceSuffixSub(NoisePrefixSub(BracketNoiseSub(title)))))

\* text_utils.py 62-69
extract_keywords(title) ==
    LET words == Words(normalize_title(title))
    IN  {words[i] : i \in {k \in DOMAIN words : words[k] \notin STOP_WORDS /\ Len(words[k]) > 2}}

\* mutant: the overlap is divided by the number of keywords of a
keyword_similarity_OverFirst(a, b) ==
    LET kw_a == extract_keywords(a)
        kw_b == extract_keywords(b)
    IN  IF kw_a = {} \/ kw_b = {}
        THEN [num |-> 0, den |-> 1, overlap |-> 0]
        ELSE [num |-> Cardinality(kw_a \cap kw_b),
              den |-> Cardinality(kw_a),
              overlap |-> Cardinality(kw_a \cap kw_b)]

\* text_utils.py 72-83: the Jaccard score as overlap/union (0/1 when a
\* keyword set is empty) and the overlap count
keyword_similarity(a, b) ==
    LET kw_a == extract_keywords(a)
        kw_b == extract_keywords(b)
    IN  IF kw_a = {} \/ kw_b = {}
        THEN [num |-> 0, den |-> 1, overlap |-> 0]
        ELSE [num |-> Cardinality(kw_a \cap kw_b),
              den |-> Cardinality(kw_a \cup kw_b),
              overlap |-> Cardinality(kw_a \cap kw_b)]


(***************************************************************************)
(* Bounds of the model.                                                    *)
(***************************************************************************)
\* articles per filter_new call
MaxBatch == 2

\* the clock runs from 0 to MaxTime, in units of 1/UnitsPerDay of a day
MaxTime == 1

UnitsPerDay == 2

\* prune is called with window_days in 1..MaxWindow
MaxWindow == 1

(***************************************************************************)
(* The inputs: titles, links, articles, and the files the store resource   *)
(* may hold when a run starts.                                             *)
(***************************************************************************)
T_Go19    == <<"G", "o", " ", "1", ".", "9", " ", "o", "u", "t">>

\* ratio with T_Go19 after lower(): 18/20, exactly the threshold
T_GO18    == <<"G", "O", " ", "1", ".", "8", " ", "O", "U", "T">>

\* ratio with T_Go19: 20/23, just below the threshold
T_Go19is  == <<"G", "o", " ", "1", ".", "9", " ", "i", "s", " ", "o", "u", "t">>

T_Py3     == <<"P", "y", " ", "3", " ", "i", "s", " ", "o", "u", "t">>

T_Old     == <<"O", "l", "d">>

\* T_Go19 with a noise prefix and a source suffix; ratio with T_Go19: 20/40
T_Go19Noisy ==
    <<"B", "r", "e", "a", "k", "i", "n", "g", ":", " ", "G", "o", " ", "1", ".", "9",
      " ", "o", "u", "t", " ", "-", " ", "R", "e", "u", "t", "e", "r", "s">>

\* one story in two wordings: six keywords each, five of them shared;
\* ratio 42/49
T_BugFound ==
    <<"B", "a", "d", " ", "C", "V", "E", " ", "b", "u", "g", " ", "f", "o", "u", "n",
      "d", " ", "F", "o", "o", " ", "B", "a", "r">>

T_BugSeen ==
    <<"B", "a", "d", " ", "C", "V", "E", " ", "b", "u", "g", " ", "s", "e", "e", "n",
      " ", "F", "o", "o", " ", "B", "a", "r">>

Titles == {T_Go19, T_GO18, T_Go19is, T_Py3, T_Old, EmptyStr,
           T_Go19Noisy, T_BugFound, T_BugSeen}

L_a1      == <<"h", "t", "t", "p", ":", "/", "/", "a", ".", "i", "o", "/", "1">>

\* the same page as L_a1: other scheme, www, trailing slash, tracking parameter
L_a1www   == <<"h", "t", "t", "p", "s", ":", "/", "/", "w", "w", "w", ".", "a", ".",
               "i", "o", "/", "1", "/", "?", "r", "e", "f", "=", "x">>

L_b2      == <<"h", "t", "t", "p", ":", "/", "/", "b", ".", "i", "o", "/", "2">>

Links == {L_a1, L_a1www, L_b2, EmptyStr}

K_a1      == <<"/", "/", "a", ".", "i", "o", "/", "1">>

K_b2      == <<"/", "/", "b", ".", "i", "o", "/", "2">>

\* Article (parser.py 22-31): the fields filter_new reads, and the id
Art(id, title, link) == [id |-> id, title |-> title, link |-> link]

Articles ==
    { Art(1, T_Go19, L_a1),
      Art(2, T_GO18, L_b2),
      Art(3, T_Py3, L_a1www),
      Art(4, T_Go19, L_b2),
      Art(5, T_Go19is, L_b2),
      Art(6, EmptyStr, EmptyStr),
      Art(7, T_BugSeen, L_b2) }

Batches == UNION {[1..n -> Articles] : n \in 0..MaxBatch}

\* mutant: the link is the key as it is
NormKey_Raw == [l \in Links |-> l]

\* normalize_url and _titles_similar on the inputs of the model, tabulated
NormKey == [l \in Links |-> normalize_url(l)]

SimilarTab == [p \in Titles \X Titles |-> titles_similar(p[1], p[2])]

(***************************************************************************)
(* A value of the persisted mapping.  shape is the JSON type of the value; *)
(* for an object, titleKind and seenKind say whether "title" and "seen_at" *)
(* are absent, text, or another JSON type, and for a seen_at text whether  *)
(* it is an ISO timestamp with an offset (aware), one without (naive), or  *)
(* no ISO timestamp (badtext).  seenAt is the instant, in clock units.     *)
(***************************************************************************)
Entry(shape, titleKind, title, seenKind, seenAt) ==
    [shape |-> shape, titleKind |-> titleKind, title |-> title,
     seenKind |-> seenKind, seenAt |-> seenAt]

\* the record filter_new writes (dedup.py 113-116)
SeenRecord(title, t) == Entry("object", "str", title, "aware", t)

NonObject(shape) == Entry(shape, "missing", EmptyStr, "missing", 0)

\* a mapping is a sequence of <<key, value>> pairs with distinct keys, in
\* insertion order (a Python dict)
EmptyMap == << >>

Keys(m) == {m[i][1] : i \in DOMAIN m}

Get(m, k) == m[CHOOSE i \in DOMAIN m : m[i][1] = k][2]

\* the content of the store resource
File(kind, data) == [kind |-> kind, data |-> data]

DictFiles ==
    { EmptyMap,
      << <<K_a1, SeenRecord(T_Old, -3)>>, <<K_b2, SeenRecord(T_Py3, -1)>> >>,
      << <<K_a1, SeenRecord(T_Old, -2)>> >>,
      << <<K_a1, Entry("object", "str", T_Old, "missing", 0)>>,
         <<K_b2, SeenRecord(T_Py3, 0)>> >>,
      << <<K_a1, Entry("object", "str", T_Old, "badtext", 0)>> >>,
      << <<K_a1, Entry("object", "str", T_Old, "naive", -3)>> >>,
      << <<K_a1, Entry("object", "str", T_Old, "nontext", 0)>> >>,
      << <<K_a1, NonObject("number")>> >>,
      << <<K_b2, SeenRecord(T_Py3, 0)>>, <<K_a1, NonObject("list")>> >>,
      << <<K_a1, Entry("object", "missing", EmptyStr, "aware", -1)>> >>,
      << <<K_a1, Entry("object", "nonstr", EmptyStr, "aware", -1)>> >>,
      \* what an earlier run leaves that accepted an article with a noisy
      \* title and an article without a link
      << <<K_a1, SeenRecord(T_Go19Noisy, 0)>>, <<EmptyStr, SeenRecord(T_BugFound, 0)>> >> }

\* missing: no such file; unreadable: open() fails; empty, badjson: not a
\* JSON document; badutf8: bytes that are not UTF-8; list: a JSON document
\* that is no object; dict: a JSON object
OtherFiles ==
    { File(k, EmptyMap) : k \in {"missing", "unreadable", "empty", "badjson", "badutf8", "list"} }

(***************************************************************************)
(* The arguments of normalize_url: a URL in its parts.  scheme is "" or    *)
(* ends with ':', query is "" or begins with '?', frag is "" or begins     *)
(* with '#'; www says that "www." precedes host, slash that '/' follows    *)
(* path.                                                                   *)
(***************************************************************************)
UrlOf(scheme, www, host, path, slash, query, frag) ==
    [scheme |-> scheme, www |-> www, host |-> host, path |-> path,
     slash |-> slash, query |-> query, frag |-> frag]

Schemes == {EmptyStr, <<"h", "t", "t", "p", ":">>, <<"h", "t", "t", "p", "s", ":">>}

Hosts == {<<"a", ".", "i", "o">>, <<"w", "w", "w", ".", "a", ".", "i", "o">>}

\* the last path ends in a slash: with slash it ends in two
Paths == {EmptyStr, <<"/", "1">>, <<"/", "a", "/", "b">>, <<"/", "a", "/">>}

\* queries that hold tracking parameters only
TrackingOnlyQueries ==
    { <<"?", "r", "e", "f", "=", "x">>,
      <<"?", "g", "c", "l", "i", "d", "=", "1", "&", "R", "E", "F", "=", "y">> }

\* queries with a parameter that has an empty value, and with a key that
\* occurs twice around another key
Q_EmptyValue == <<"?", "x", "=", "&", "y", "=", "2">>

Q_Repeated == <<"?", "y", "=", "2", "&", "x", "=", "1", "&", "y", "=", "3">>

Queries ==
    { EmptyStr,
      <<"?", "x", "=", "1">>,
      <<"?", "x", "=", "1", "&", "u", "t", "m", "_", "s", "o", "u", "r", "c", "e", "=", "t">>,
      Q_EmptyValue,
      Q_Repeated }
    \cup TrackingOnlyQueries

Fragments == {EmptyStr, <<"#", "f">>}

UrlInputs ==
    { UrlOf(s, w, h, p, sl, q, f) :
        s \in Schemes, w \in BOOLEAN, h \in Hosts, p \in Paths, sl \in BOOLEAN,
        q \in Queries, f \in Fragments }

\* the text of the URL
UrlText(u) ==
    u.scheme \o <<"/", "/">>
      \o (IF u.www THEN <<"w", "w", "w", ".">> ELSE EmptyStr) \o u.host
      \o u.path \o (IF u.slash THEN <<"/">> ELSE EmptyStr)
      \o u.query \o u.frag

NoUrl == UrlOf(EmptyStr, FALSE, EmptyStr, EmptyStr, FALSE, EmptyStr, EmptyStr)

NotCalled == [done |-> FALSE, text |-> EmptyStr]

(***************************************************************************)
(* The arguments of keyword_similarity: titles without keywords (empty,    *)
(* short words, stop words only), with one keyword, with the same keywords *)
(* in another wording, and with some keywords shared.                      *)
(***************************************************************************)
T_StopWords == <<"t", "h", "e", " ", "a", "n", "d", " ", "o", "r", " ", "b", "u", "t">>

T_OldNoisy  == <<"[", "L", "i", "v", "e", "]", " ", "O", "l", "d", " ", "-", " ", "B", "B", "C">>

T_FooBarBug == <<"F", "o", "o", " ", "B", "a", "r", " ", "b", "u", "g">>

T_BugBarFoo == <<"b", "u", "g", " ", "B", "a", "r", " ", "f", "o", "o", "!">>

T_OldBug    == <<"O", "l", "d", " ", "b", "u", "g">>

KwTitles == {EmptyStr, T_Go19, T_StopWords, T_Old, T_OldNoisy, T_OldBug,
             T_FooBarBug, T_BugBarFoo, T_BugFound, T_BugSeen}

NoTitles == <<EmptyStr, EmptyStr>>

NoSimilarity == [done |-> FALSE, value |-> [num |-> 0, den |-> 1, overlap |-> 0]]

(***************************************************************************)
(* The state.                                                              *)
(***************************************************************************)
VARIABLES
    disk,       \* the content of the store resource (db_path)
    fs,         \* what the file system lets save do
    now,        \* the clock (datetime.now(timezone.utc))
    alive,      \* a Deduplicator has been constructed
    seen,       \* Deduplicator._seen
    lastOp,     \* the last call
    raised,     \* the exception the last call raised, or "none"
    pre,        \* _seen when the last call began
    callTime,   \* the clock when the last call began
    argBatch,   \* the articles of the last filter_new call
    argTick,    \* the position in it before which the clock ticked (0: none)
    argWindow,  \* the window_days of the last prune call
    ret,        \* the list the last filter_new call returned
    accepted,   \* the positions of argBatch it accepted
    pc,         \* "idle", or "done": the last call has ended and the caller
                \* holds its outcome
    saved,      \* what the last save left in the resource: ok (a complete
                \* document), the mapping it wrote, and the articles whose
                \* acceptance that mapping records
    known,      \* the articles whose acceptance _seen records: old (accepted
                \* in an earlier run, saved, and loaded by this one) and new
                \* (accepted in this run)
    url,        \* the argument of a call of normalize_url, in its parts
    norm,       \* what the call returned
    titlePair,  \* the arguments of a call of keyword_similarity
    sim,        \* what the call returned
    prPc,       \* create_pr: the command it issues next, "finally" (the
                \* finally clause is to run), "done", or "idle" (no call)
    prLog,      \* create_pr: the commands it has issued and their outcomes
    prStaged,   \* the files staged in the git index
    prRet,      \* create_pr: "url", "None" or "raised" once decided
    twSeen,     \* _seen of a Deduplicator that is given one batch twice
    twBatch,    \* the batch
    twCalls,    \* its filter_new calls so far: _seen before, the list
                \* returned, the exception raised, _seen after
    sumIn,      \* summarize: the articles it is given
    sumSize,    \* summarize: batch_size
    sumPos,     \* summarize: i, the 0-based start of the current batch
    sumJ,       \* _summarize_batch: 0 before the batch call, else the
                \* position in the batch of the next individual call
    sumSingles, \* _summarize_batch: the results of the individual calls of
                \* the current batch
    sumOut,     \* summarize: results
    sumLog,     \* the calls of the API so far
    sumPc,      \* "idle" (no call), "running" or "done" (returned)
    sources,    \* fetch_all_articles: the number of its sources, whose
                \* names are 1..sources
    workers,    \* fetch_all_articles: max_workers
    future,     \* the future of each source: "queued", "running",
                \* "finished" or "collected" (handed out by as_completed)
    outcome,    \* what the future of each source holds once finished: the
                \* list fetch_articles returned, or an exception
    all_articles,   \* fetch_all_articles: all_articles
    feed_stats,     \* fetch_all_articles: feed_stats
    fetchPc,    \* "idle" (no call), "running" or "done" (returned)
    shared,     \* the store resource that several processes use
    proc,       \* the Deduplicator of each process: where it stands, its
                \* _seen, its batch, _seen before filter_new, the articles
                \* it accepted, and stale: another process has saved since
                \* it loaded
    writers     \* the processes that have saved, in the order of the saves

dedupVars == <<disk, fs, now, alive, seen, lastOp, raised, pre, callTime,
               argBatch, argTick, argWindow, ret, accepted, pc, saved, known>>

urlVars == <<url, norm>>

kwVars == <<titlePair, sim>>

prVars == <<prPc, prLog, prStaged, prRet>>

twVars == <<twSeen, twBatch, twCalls>>

\* the state of the components beside the Deduplicator and normalize_url
sumVars == <<sumIn, sumSize, sumPos, sumJ, sumSingles, sumOut, sumLog, sumPc>>

fetchVars == <<sources, workers, future, outcome, all_articles, feed_stats, fetchPc>>

shVars == <<shared, proc, writers>>

elsewhere == <<kwVars, prVars, twVars, sumVars, fetchVars, shVars>>

vars == <<disk, fs, now, alive, seen, lastOp, raised, pre, callTime,
          argBatch, argTick, argWindow, ret, accepted, pc, saved, known,
          url, norm, elsewhere>>

NothingSaved == [ok |-> FALSE, data |-> EmptyMap, arts |-> {}]

NothingKnown == [old |-> {}, new |-> {}]

\* no call of keyword_similarity
KwAtRest == titlePair = NoTitles /\ sim = NoSimilarity

\* no call of create_pr
PrAtRest == prPc = "idle" /\ prLog = << >> /\ prStaged = {} /\ prRet = "unset"

\* no Deduplicator that is given a batch twice
TwAtRest == twSeen = EmptyMap /\ twBatch = << >> /\ twCalls = << >>

\* no call of summarize
SumAtRest ==
    /\ sumIn = << >>
    /\ sumSize = 1
    /\ sumPos = 0
    /\ sumJ = 0
    /\ sumSingles = << >>
    /\ sumOut = << >>
    /\ sumLog = << >>
    /\ sumPc = "idle"

\* no call of fetch_all_articles
FetchAtRest ==
    /\ sources = 0
    /\ workers = 1
    /\ future = << >>
    /\ outcome = << >>
    /\ all_articles = << >>
    /\ feed_stats = << >>
    /\ fetchPc = "idle"

\* no processes
ShAtRest == shared = File("missing", EmptyMap) /\ proc = << >> /\ writers = << >>

ElsewhereAtRest ==
    KwAtRest /\ PrAtRest /\ TwAtRest /\ SumAtRest /\ FetchAtRest /\ ShAtRest

\* fs: ok (the file can be written), noparent (its directory does not exist
\* yet), blocked (its directory cannot be created), readonly (open for
\* writing fails), full (open succeeds and the write fails)
Init ==
    /\ \/ fs = "ok" /\ disk \in OtherFiles \cup {File("dict", d) : d \in DictFiles}
       \/ fs \in {"noparent", "blocked"} /\ disk = File("missing", EmptyMap)
       \/ fs \in {"readonly", "full"} /\ disk = File("dict", EmptyMap)
    /\ now = 0
    /\ alive = FALSE
    /\ seen = EmptyMap
    /\ lastOp = "none"
    /\ raised = "none"
    /\ pre = EmptyMap
    /\ callTime = 0
    /\ argBatch = << >>
    /\ argTick = 0
    /\ argWindow = 0
    /\ ret = << >>
    /\ accepted = << >>
    /\ pc = "idle"
    /\ saved = NothingSaved
    /\ known = NothingKnown
    /\ url = NoUrl
    /\ norm = NotCalled
    /\ ElsewhereAtRest


(***************************************************************************)
(* Deduplicator.__init__ and _load (dedup.py 50-67).                       *)
(***************************************************************************)
\* what _load lets through: open() decodes the bytes as UTF-8, and the
\* UnicodeDecodeError of a badly encoded file is a ValueError that is
\* neither a JSONDecodeError nor an OSError
LoadError(file) == IF file.kind = "badutf8" THEN "UnicodeDecodeError" ELSE "none"

\* mutant: _load starts fresh whatever the file holds
LoadResult_Fresh(file) == EmptyMap

\* what _load returns: a missing file, an OSError and a JSONDecodeError give
\* {}; a document that is not a dict gives {}; a dict is returned as it is
LoadResult(file) == IF file.kind = "dict" THEN file.data ELSE EmptyMap

\* mutant: the call commits the mapping it ends with
Untouched_Autosave(file, m) == File("dict", m)

\* the resource after a call that holds mapping m when it ends: the
\* constructor opens db_path for reading (line 59), prune and filter_new do
\* not open it at all
Untouched(file, m) == file

load ==
    /\ pc = "idle"
    /\ pc' = "done"
    /\ lastOp' = "load"
    /\ raised' = LoadError(disk)
    /\ alive' = (LoadError(disk) = "none")
    /\ seen' = IF LoadError(disk) = "none" THEN LoadResult(disk) ELSE EmptyMap
    /\ pre' = EmptyMap
    /\ callTime' = now
    /\ argBatch' = << >>
    /\ argTick' = 0
    /\ argWindow' = 0
    /\ ret' = << >>
    /\ accepted' = << >>
    /\ known' = IF LoadError(disk) = "none" /\ saved.ok
                THEN [old |-> saved.arts, new |-> {}]
                ELSE NothingKnown
    /\ disk' = Untouched(disk, LoadResult(disk))
    /\ UNCHANGED <<fs, now, saved, url, norm, elsewhere>>

(***************************************************************************)
(* Deduplicator.save (dedup.py 69-73).                                     *)
(***************************************************************************)
\* mutant: save logs the OSError and returns
SaveError_Swallowed(f) == "none"

\* nothing is caught: mkdir raises when the directory cannot be created
\* (blocked), open raises when the file cannot be opened for writing
\* (readonly), and json.dump raises when a write fails (full)
SaveError(f) == IF f \in {"blocked", "readonly", "full"} THEN "OSError" ELSE "none"

\* open(.., "w") truncates the file before json.dump writes it, so a write
\* that fails leaves no document or the beginning of one
save ==
    /\ pc = "idle"
    /\ pc' = "done"
    /\ alive
    /\ lastOp' = "save"
    /\ pre' = seen
    /\ callTime' = now
    /\ raised' = SaveError(fs)
    /\ \/ /\ fs \in {"blocked", "readonly"}
          /\ UNCHANGED <<disk, fs, saved>>
       \/ /\ fs \in {"ok", "noparent"}
          /\ fs' = "ok"
          /\ disk' = File("dict", seen)
          /\ saved' = [ok |-> TRUE, data |-> seen, arts |-> known.old \cup known.new]
       \/ /\ fs = "full"
          /\ disk' \in {File("empty", EmptyMap), File("badjson", EmptyMap)}
          /\ saved' = NothingSaved
          /\ UNCHANGED fs
    /\ argBatch' = << >>
    /\ argTick' = 0
    /\ argWindow' = 0
    /\ ret' = << >>
    /\ accepted' = << >>
    /\ UNCHANGED <<now, alive, seen, known, url, norm, elsewhere>>

(***************************************************************************)
(* Deduplicator.prune (dedup.py 75-89).                                    *)
(***************************************************************************)
\* timedelta.days: whole days, rounded down
Days(delta) == delta \div UnitsPerDay

\* lines 81-85 for one entry: "keep", "remove" (older than the window, or a
\* KeyError or ValueError was caught), or the exception that is not caught.
\* entry["seen_at"] on a value that is no dict, fromisoformat of a value
\* that is no text, and aware - naive all raise TypeError
PruneEntry(e, t, window_days) ==
    IF e.shape # "object" THEN "TypeError"
    ELSE IF e.seenKind = "missing" THEN "remove"
    ELSE IF e.seenKind = "nontext" THEN "TypeError"
    ELSE IF e.seenKind = "badtext" THEN "remove"
    ELSE IF e.seenKind = "naive" THEN "TypeError"
    ELSE IF Days(t - e.seenAt) > window_days THEN "remove"
    ELSE "keep"

\* lines 86-87: the mapping without the keys of to_remove
RECURSIVE Without(_, _, _)
Without(m, t, window_days) ==
    IF Len(m) = 0 THEN EmptyMap
    ELSE IF PruneEntry(Head(m)[2], t, window_days) = "remove"
         THEN Without(Tail(m), t, window_days)
         ELSE <<Head(m)>> \o Without(Tail(m), t, window_days)

\* the loop of lines 79-85 raises before anything is deleted
PruneError(m, t, window_days) ==
    IF \E i \in DOMAIN m : PruneEntry(m[i][2], t, window_days) = "TypeError"
    THEN "TypeError" ELSE "none"

\* the articles of arts whose record is still in m
StillKnown(arts, m) == {a \in arts : NormKey[a.link] \in Keys(m)}

prune ==
    /\ pc = "idle"
    /\ pc' = "done"
    /\ alive
    /\ \E window_days \in 1..MaxWindow :
          /\ argWindow' = window_days
          /\ raised' = PruneError(seen, now, window_days)
          /\ seen' = IF PruneError(seen, now, window_days) = "none"
                     THEN Without(seen, now, window_days)
                     ELSE seen
    /\ known' = [old |-> StillKnown(known.old, seen'), new |-> StillKnown(known.new, seen')]
    /\ disk' = Untouched(disk, seen')
    /\ lastOp' = "prune"
    /\ pre' = seen
    /\ callTime' = now
    /\ argBatch' = << >>
    /\ argTick' = 0
    /\ ret' = << >>
    /\ accepted' = << >>
    /\ UNCHANGED <<fs, now, alive, saved, url, norm, elsewhere>>

(***************************************************************************)
(* Deduplicator.filter_new (dedup.py 91-123).                              *)
(***************************************************************************)
\* line 94, one element: e.get("title", "")
SeenTitle(e) ==
    IF e.titleKind = "missing" THEN [kind |-> "str", text |-> EmptyStr]
    ELSE [kind |-> e.titleKind, text |-> e.title]

\* line 94 raises AttributeError on a value that has no get()
SeenTitlesError(m) ==
    IF \E i \in DOMAIN m : m[i][2].shape # "object" THEN "AttributeError" ELSE "none"

SeenTitles(m) == [i \in DOMAIN m |-> SeenTitle(m[i][2])]

\* lines 104-108: "dup" at the first similar title, "AttributeError" at a
\* title that has no lower(), "new" at the end of the list
RECURSIVE ScanTitles(_, _)
ScanTitles(title, seen_titles) ==
    IF Len(seen_titles) = 0 THEN "new"
    ELSE IF Head(seen_titles).kind # "str" THEN "AttributeError"
    ELSE IF SimilarTab[<<title, Head(seen_titles).text>>] THEN "dup"
    ELSE ScanTitles(title, Tail(seen_titles))

\* mutant: the URL check is skipped
UrlSeen_Never(norm_url, m) == FALSE

\* line 100
UrlSeen(norm_url, m) == norm_url \in Keys(m)

\* mutant: the acceptance is not recorded
MarkSeen_Forget(m, norm_url, title, t) == m

\* lines 113-116: self._seen[norm_url] = {...} adds the key at the end of
\* the dict, or replaces the value of a key that is already there
MarkSeen(m, norm_url, title, t) ==
    IF norm_url \in Keys(m)
    THEN [i \in DOMAIN m |-> IF m[i][1] = norm_url
                             THEN <<norm_url, SeenRecord(title, t)>>
                             ELSE m[i]]
    ELSE Append(m, <<norm_url, SeenRecord(title, t)>>)

\* mutant: seen_titles is not extended
ExtendTitles_Skip(seen_titles, title) == seen_titles

\* line 117
ExtendTitles(seen_titles, title) == Append(seen_titles, [kind |-> "str", text |-> title])

\* mutant: the article is inserted at the front of new_articles
ExtendNew_Front(new_articles, i) == <<i>> \o new_articles

\* line 118: the position stands for the article appended to new_articles
ExtendNew(new_articles, i) == Append(new_articles, i)

\* mutant: the clock is read once, before the loop
TimeAt_CallStart(t, tick, i) == t

\* the clock when article i is processed (datetime.now on line 115)
TimeAt(t, tick, i) == IF tick # 0 /\ i >= tick THEN t + 1 ELSE t

\* the loop of lines 96-118 from article i on
RECURSIVE FilterLoop(_, _, _, _, _)
FilterLoop(articles, i, st, t, tick) ==
    IF i > Len(articles) \/ st.raised # "none" THEN st
    ELSE LET article  == articles[i]
             norm_url == NormKey[article.link]
             scan     == ScanTitles(article.title, st.seen_titles)
         IN  IF UrlSeen(norm_url, st.seen) THEN FilterLoop(articles, i + 1, st, t, tick)
             ELSE IF scan = "dup" THEN FilterLoop(articles, i + 1, st, t, tick)
             ELSE IF scan = "AttributeError"
                  THEN [st EXCEPT !.raised = "AttributeError"]
             ELSE FilterLoop(articles, i + 1,
                     [seen         |-> MarkSeen(st.seen, norm_url, article.title,
                                                TimeAt(t, tick, i)),
                      seen_titles  |-> ExtendTitles(st.seen_titles, article.title),
                      new_articles |-> ExtendNew(st.new_articles, i),
                      raised       |-> "none"],
                     t, tick)

FilterRun(m, articles, t, tick) ==
    IF SeenTitlesError(m) # "none"
    THEN [seen |-> m, seen_titles |-> << >>, new_articles |-> << >>,
          raised |-> SeenTitlesError(m)]
    ELSE FilterLoop(articles, 1,
                    [seen |-> m, seen_titles |-> SeenTitles(m),
                     new_articles |-> << >>, raised |-> "none"],
                    t, tick)

filter_new ==
    /\ pc = "idle"
    /\ pc' = "done"
    /\ alive
    /\ \E articles \in Batches :
       \E tick \in 0..Len(articles) :
          /\ tick # 0 => now < MaxTime
          /\ \E run \in {FilterRun(seen, articles, now, tick)} :
                 /\ seen' = run.seen
                 /\ disk' = Untouched(disk, run.seen)
                 /\ known' = [known EXCEPT !.new =
                                 @ \cup {articles[i] : i \in Range(run.new_articles)}]
                 /\ raised' = run.raised
                 /\ accepted' = run.new_articles
                 /\ ret' = IF run.raised = "none"
                           THEN [k \in DOMAIN run.new_articles |-> articles[run.new_articles[k]]]
                           ELSE << >>
          /\ argBatch' = articles
          /\ argTick' = tick
          /\ now' = IF tick # 0 THEN now + 1 ELSE now
    /\ lastOp' = "filter_new"
    /\ pre' = seen
    /\ callTime' = now
    /\ argWindow' = 0
    /\ UNCHANGED <<fs, alive, saved, url, norm, elsewhere>>

\* time passes between the calls
Tick ==
    /\ pc = "idle"
    /\ now < MaxTime
    /\ now' = now + 1
    /\ UNCHANGED <<disk, fs, alive, seen, lastOp, raised, pre, callTime,
                   argBatch, argTick, argWindow, ret, accepted, pc, saved, known,
                   url, norm, elsewhere>>

\* the caller goes on after a call: its outcome is dropped
Return ==
    /\ pc = "done"
    /\ pc' = "idle"
    /\ lastOp' = "none"
    /\ raised' = "none"
    /\ pre' = EmptyMap
    /\ callTime' = 0
    /\ argBatch' = << >>
    /\ argTick' = 0
    /\ argWindow' = 0
    /\ ret' = << >>
    /\ accepted' = << >>
    /\ UNCHANGED <<disk, fs, now, alive, seen, saved, known, url, norm, elsewhere>>

Next == load \/ save \/ prune \/ filter_new \/ Tick \/ Return

Spec == Init /\ [][Next]_vars

(***************************************************************************)
(* normalize_url on its own: one call on one of the URLs of UrlInputs.     *)
(***************************************************************************)
\* no Deduplicator
DedupAtRest ==
    /\ disk = File("missing", EmptyMap)
    /\ fs = "ok"
    /\ now = 0
    /\ alive = FALSE
    /\ seen = EmptyMap
    /\ lastOp = "none"
    /\ raised = "none"
    /\ pre = EmptyMap
    /\ callTime = 0
    /\ argBatch = << >>
    /\ argTick = 0
    /\ argWindow = 0
    /\ ret = << >>
    /\ accepted = << >>
    /\ pc = "idle"
    /\ saved = NothingSaved
    /\ known = NothingKnown

InitUrl ==
    /\ DedupAtRest
    /\ url \in UrlInputs
    /\ norm = NotCalled
    /\ ElsewhereAtRest

Normalize ==
    /\ ~norm.done
    /\ norm' = [done |-> TRUE, text |-> normalize_url(UrlText(url))]
    /\ UNCHANGED <<disk, fs, now, alive, seen, lastOp, raised, pre, callTime,
                   argBatch, argTick, argWindow, ret, accepted, pc, saved, known,
                   url, elsewhere>>

NextUrl == Normalize

SpecUrl == InitUrl /\ [][NextUrl]_vars

(***************************************************************************)
(* keyword_similarity on its own: one call on two of the titles of         *)
(* KwTitles.                                                               *)
(***************************************************************************)
UrlAtRest == url = NoUrl /\ norm = NotCalled

InitKw ==
    /\ DedupAtRest
    /\ UrlAtRest
    /\ PrAtRest
    /\ TwAtRest
    /\ SumAtRest
    /\ FetchAtRest
    /\ ShAtRest
    /\ titlePair \in KwTitles \X KwTitles
    /\ sim = NoSimilarity

Similarity ==
    /\ ~sim.done
    /\ sim' = [done |-> TRUE, value |-> keyword_similarity(titlePair[1], titlePair[2])]
    /\ UNCHANGED <<dedupVars, urlVars, titlePair, prVars, twVars, sumVars, fetchVars, shVars>>

NextKw == Similarity

SpecKw == InitKw /\ [][NextKw]_vars

(***************************************************************************)
(* create_pr (pr_creator.py 19-92), one action per command it runs.  A     *)
(* command is a subprocess (_run, lines 13-16): it ends with return code 0 *)
(* ("ok") or another ("fail"), and subprocess.run raises when the program  *)
(* is not installed ("raise": FileNotFoundError; taken for gh only, git    *)
(* having answered before).  git ls-remote prints the matching heads       *)
(* ("heads"), prints nothing ("none"), or fails and prints nothing         *)
(* ("error").  git commit fails when nothing is staged.                    *)
(***************************************************************************)
Cmd(cmd, out) == [cmd |-> cmd, out |-> out]

\* mutant: a return inside the try block leaves at once
LeaveTry_Direct == "done"

\* a return or an exception inside the try block (lines 51-88) runs the
\* finally clause (lines 90-92) first
LeaveTry == "finally"

InitPr ==
    /\ DedupAtRest
    /\ UrlAtRest
    /\ KwAtRest
    /\ TwAtRest
    /\ SumAtRest
    /\ FetchAtRest
    /\ ShAtRest
    /\ prPc = "ls-remote"
    /\ prLog = << >>
    /\ prStaged \in SUBSET {"other"}
    /\ prRet = "unset"

\* lines 40-43
PrLsRemote ==
    /\ prPc = "ls-remote"
    /\ \E out \in {"heads", "none", "error"} :
          /\ prLog' = Append(prLog, Cmd("ls-remote", out))
          /\ IF out = "heads"
             THEN prRet' = "None" /\ prPc' = "done"
             ELSE prRet' = prRet /\ prPc' = "checkout -b"
    /\ UNCHANGED <<dedupVars, urlVars, kwVars, twVars, sumVars, fetchVars, shVars, prStaged>>

\* lines 46-49
PrCheckoutNew ==
    /\ prPc = "checkout -b"
    /\ \E out \in {"ok", "fail"} :
          /\ prLog' = Append(prLog, Cmd("checkout -b", out))
          /\ IF out = "fail"
             THEN prRet' = "None" /\ prPc' = "done"
             ELSE prRet' = prRet /\ prPc' = "add digest"
    /\ UNCHANGED <<dedupVars, urlVars, kwVars, twVars, sumVars, fetchVars, shVars, prStaged>>

\* line 53: the result of git add is not looked at
PrAddDigest ==
    /\ prPc = "add digest"
    /\ \E out \in {"ok", "fail"} :
          /\ prLog' = Append(prLog, Cmd("add digest", out))
          /\ prStaged' = IF out = "ok" THEN prStaged \cup {"digest"} ELSE prStaged
    /\ prPc' = "add seen_db"
    /\ UNCHANGED <<dedupVars, urlVars, kwVars, twVars, sumVars, fetchVars, shVars, prRet>>

\* line 54: nor is this one
PrAddSeenDb ==
    /\ prPc = "add seen_db"
    /\ \E out \in {"ok", "fail"} :
          /\ prLog' = Append(prLog, Cmd("add seen_db", out))
          /\ prStaged' = IF out = "ok" THEN prStaged \cup {"seen_db"} ELSE prStaged
    /\ prPc' = "commit"
    /\ UNCHANGED <<dedupVars, urlVars, kwVars, twVars, sumVars, fetchVars, shVars, prRet>>

\* lines 57-61
PrCommit ==
    /\ prPc = "commit"
    /\ \E out \in {"ok", "fail"} :
          /\ out = "ok" => prStaged # {}
          /\ prLog' = Append(prLog, Cmd("commit", out))
          /\ prStaged' = IF out = "ok" THEN {} ELSE prStaged
          /\ IF out = "fail"
             THEN prRet' = "None" /\ prPc' = LeaveTry
             ELSE prRet' = prRet /\ prPc' = "push"
    /\ UNCHANGED <<dedupVars, urlVars, kwVars, twVars, sumVars, fetchVars, shVars>>

\* lines 64-67
PrPush ==
    /\ prPc = "push"
    /\ \E out \in {"ok", "fail"} :
          /\ prLog' = Append(prLog, Cmd("push", out))
          /\ IF out = "fail"
             THEN prRet' = "None" /\ prPc' = LeaveTry
             ELSE prRet' = prRet /\ prPc' = "pr create"
    /\ UNCHANGED <<dedupVars, urlVars, kwVars, twVars, sumVars, fetchVars, shVars, prStaged>>

\* lines 70-88
PrCreate ==
    /\ prPc = "pr create"
    /\ \E out \in {"ok", "fail", "raise"} :
          /\ prLog' = Append(prLog, Cmd("pr create", out))
          /\ prRet' = CASE out = "ok" -> "url"
                        [] out = "fail" -> "None"
                        [] out = "raise" -> "raised"
          /\ prPc' = LeaveTry
    /\ UNCHANGED <<dedupVars, urlVars, kwVars, twVars, sumVars, fetchVars, shVars, prStaged>>

\* lines 90-92: the result of the checkout is not looked at
PrCheckoutMain ==
    /\ prPc = "finally"
    /\ \E out \in {"ok", "fail"} :
          prLog' = Append(prLog, Cmd("checkout main", out))
    /\ prPc' = "done"
    /\ UNCHANGED <<dedupVars, urlVars, kwVars, twVars, sumVars, fetchVars, shVars, prStaged, prRet>>

NextPr ==
    \/ PrLsRemote
    \/ PrCheckoutNew
    \/ PrAddDigest
    \/ PrAddSeenDb
    \/ PrCommit
    \/ PrPush
    \/ PrCreate
    \/ PrCheckoutMain

SpecPr == InitPr /\ [][NextPr]_vars

(***************************************************************************)
(* One Deduplicator that is given the same batch twice: filter_new(batch)  *)
(* and, when it has returned, filter_new(batch) again, with no other call  *)
(* in between.  The Deduplicator holds what _load returned for one of the  *)
(* stored mappings; time may pass between the two calls.                   *)
(***************************************************************************)
InitTwice ==
    /\ DedupAtRest
    /\ UrlAtRest
    /\ KwAtRest
    /\ PrAtRest
    /\ SumAtRest
    /\ FetchAtRest
    /\ ShAtRest
    /\ twSeen \in {LoadResult(File("dict", d)) : d \in DictFiles}
    /\ twBatch \in Batches
    /\ twCalls = << >>

Call(before, run, articles) ==
    [pre |-> before,
     ret |-> IF run.raised = "none"
             THEN [k \in DOMAIN run.new_articles |-> articles[run.new_articles[k]]]
             ELSE << >>,
     raised |-> run.raised,
     post |-> run.seen]

\* filter_new(twBatch), dedup.py 91-123
FilterSameBatch ==
    /\ Len(twCalls) < 2
    /\ \A i \in DOMAIN twCalls : twCalls[i].raised = "none"
    /\ \E t \in Len(twCalls)..MaxTime :
       \E run \in {FilterRun(twSeen, twBatch, t, 0)} :
          /\ twSeen' = run.seen
          /\ twCalls' = Append(twCalls, Call(twSeen, run, twBatch))
    /\ UNCHANGED <<dedupVars, urlVars, kwVars, prVars, sumVars, fetchVars, shVars, twBatch>>

NextTwice == FilterSameBatch

SpecTwice == InitTwice /\ [][NextTwice]_vars

(***************************************************************************)
(* GeminiSummarizer.summarize (summarizer.py 54-146).  _call_gemini        *)
(* returns None when anything fails (lines 72-74) and the stripped text    *)
(* otherwise.  A text is the sequence of its lines, a line being           *)
(* "numbered" (a number, '.' or ')', and a text), "bare" (a number and '.' *)
(* or ')' with nothing after it) or "plain" (anything else).  A summary    *)
(* taken from a batch response is the list of the lines it is made of.     *)
(***************************************************************************)
MaxArticles == 3

MaxBatchSize == 2

MaxLines == 3

LineKinds == {"numbered", "bare", "plain"}

\* what _call_gemini returns: None, or a text ("" when it has no line)
NoResponse == [ok |-> FALSE, lines |-> << >>]

Text(lines) == [ok |-> TRUE, lines |-> lines]

Responses == {NoResponse} \cup {Text(l) : l \in UNION {[1..n -> LineKinds] : n \in 0..MaxLines}}

\* `if response:` / `if ja_summary:` -- None and "" are false
Truthy(response) == response.ok /\ Len(response.lines) > 0

\* the summaries of an article: the RSS description it came with, a summary
\* cut from a batch response, the text of an individual response
Rss(id) == [src |-> "rss", of |-> id, lines |-> << >>]

FromBatch(lines) == [src |-> "batch", of |-> 0, lines |-> lines]

FromSingle(id) == [src |-> "single", of |-> id, lines |-> << >>]

\* Article (parser.py 22-31)
SumArticle(id) == [id |-> id, title |-> id, link |-> id, summary |-> Rss(id)]

SumInputs == {[k \in 1..n |-> SumArticle(k)] : n \in 0..MaxArticles}

\* dataclasses.replace(article, summary=summary)
Replace(article, summary) == [article EXCEPT !.summary = summary]

\* the loop of lines 119-127 from line k on: summaries and current
RECURSIVE ParseLines(_, _, _, _)
ParseLines(lines, k, summaries, current) ==
    IF k > Len(lines) THEN [summaries |-> summaries, current |-> current]
    ELSE LET closed == IF current # << >> THEN Append(summaries, current) ELSE summaries
         IN  CASE lines[k] = "numbered" -> ParseLines(lines, k + 1, closed, <<k>>)
               [] lines[k] = "bare"     -> ParseLines(lines, k + 1, closed, << >>)
               [] OTHER ->
                    ParseLines(lines, k + 1, summaries,
                               IF current # << >> THEN Append(current, k) ELSE current)

\* lines 116-129: the summaries found in the response
Summaries(lines) ==
    LET end == ParseLines(lines, 1, << >>, << >>)
    IN  IF end.current # << >> THEN Append(end.summaries, end.current) ELSE end.summaries

\* mutant: the number of summaries is not compared
ParseBatch_AnyCount(lines, expected_count) ==
    [ok |-> TRUE, summaries |-> Summaries(lines)]

\* _parse_batch_response (lines 110-138): None unless the count matches
ParseBatch(lines, expected_count) ==
    IF Len(Summaries(lines)) = expected_count
    THEN [ok |-> TRUE, summaries |-> Summaries(lines)]
    ELSE [ok |-> FALSE, summaries |-> << >>]

\* articles[i : i + batch_size], i 0-based
Batch(articles, i, size) ==
    SubSeq(articles, i + 1, IF i + size < Len(articles) THEN i + size ELSE Len(articles))

\* zip(batch, summaries) of lines 101-102: as long as the shorter of the two
Zipped(batch, summaries) ==
    [k \in 1..(IF Len(batch) < Len(summaries) THEN Len(batch) ELSE Len(summaries))
        |-> Replace(batch[k], FromBatch(summaries[k]))]

\* the calls of the API
BatchCall(first, size, response) ==
    [kind |-> "batch", first |-> first, size |-> size, ok |-> Truthy(response),
     count |-> IF Truthy(response) THEN Len(Summaries(response.lines)) ELSE 0]

SingleCall(id, response) ==
    [kind |-> "single", first |-> id, size |-> 1, ok |-> Truthy(response), count |-> 0]

InitSum ==
    /\ DedupAtRest
    /\ UrlAtRest
    /\ KwAtRest
    /\ PrAtRest
    /\ TwAtRest
    /\ FetchAtRest
    /\ ShAtRest
    /\ sumIn \in SumInputs
    /\ sumSize \in 1..MaxBatchSize
    /\ sumPos = 0
    /\ sumJ = 0
    /\ sumSingles = << >>
    /\ sumOut = << >>
    /\ sumLog = << >>
    /\ sumPc = "running"

\* _summarize_batch up to the fallback (lines 90-106) and, when the batch
\* response is used, results.extend of line 145
SumBatchCall ==
    /\ sumPc = "running"
    /\ sumPos < Len(sumIn)
    /\ sumJ = 0
    /\ \E response \in Responses :
       \E batch \in {Batch(sumIn, sumPos, sumSize)} :
          /\ sumLog' = Append(sumLog, BatchCall(sumPos + 1, Len(batch), response))
          /\ IF Truthy(response) /\ ParseBatch(response.lines, Len(batch)).ok
                /\ Len(ParseBatch(response.lines, Len(batch)).summaries) > 0
             THEN /\ sumOut' = sumOut
                                 \o Zipped(batch, ParseBatch(response.lines, Len(batch)).summaries)
                  /\ sumPos' = sumPos + sumSize
                  /\ sumJ' = 0
             ELSE /\ sumJ' = 1
                  /\ UNCHANGED <<sumOut, sumPos>>
    /\ UNCHANGED <<dedupVars, urlVars, kwVars, prVars, twVars, fetchVars, shVars, sumIn, sumSize, sumSingles,
                   sumPc>>

\* _summarize_single (lines 76-83) for the next article of the fallback of
\* line 107 and, after the last one, results.extend of line 145
SumSingleCall ==
    /\ sumPc = "running"
    /\ sumJ > 0
    /\ \E response \in {NoResponse, Text(<< >>), Text(<<"plain">>)} :
       \E batch \in {Batch(sumIn, sumPos, sumSize)} :
       \E result \in {IF Truthy(response)
                      THEN Replace(batch[sumJ], FromSingle(batch[sumJ].id))
                      ELSE batch[sumJ]} :
          /\ sumLog' = Append(sumLog, SingleCall(batch[sumJ].id, response))
          /\ IF sumJ < Len(batch)
             THEN /\ sumSingles' = Append(sumSingles, result)
                  /\ sumJ' = sumJ + 1
                  /\ UNCHANGED <<sumOut, sumPos>>
             ELSE /\ sumOut' = sumOut \o Append(sumSingles, result)
                  /\ sumSingles' = << >>
                  /\ sumJ' = 0
                  /\ sumPos' = sumPos + sumSize
    /\ UNCHANGED <<dedupVars, urlVars, kwVars, prVars, twVars, fetchVars, shVars, sumIn, sumSize, sumPc>>

\* the loop of line 143 has ended: return results
SumReturn ==
    /\ sumPc = "running"
    /\ sumPos >= Len(sumIn)
    /\ sumPc' = "done"
    /\ UNCHANGED <<dedupVars, urlVars, kwVars, prVars, twVars, fetchVars, shVars,
                   sumIn, sumSize, sumPos, sumJ, sumSingles, sumOut, sumLog>>

NextSum == SumBatchCall \/ SumSingleCall \/ SumReturn

SpecSum == InitSum /\ [][NextSum]_vars

(***************************************************************************)
(* fetch_all_articles (parser.py 118-159).  One future per source is       *)
(* submitted to a pool of max_workers threads, which take the queued       *)
(* futures in the order of submission; the calling thread takes the        *)
(* finished futures from as_completed, one at a time, and is the only one  *)
(* that touches all_articles and feed_stats.                               *)
(***************************************************************************)
MaxSources == 3

MaxWorkers == 2

MaxFetched == 2

\* an Article of source s (parser.py 97-108): its source_name and its place
\* in the feed
Fetched(s, n) == [source_name |-> s, entry |-> n]

\* what future.result() gives: the list fetch_articles returned, or an
\* exception
Returns(s, n) == [raised |-> FALSE, articles |-> [k \in 1..n |-> Fetched(s, k)]]

Raises == [raised |-> TRUE, articles |-> << >>]

Outcomes(s) == {Raises} \cup {Returns(s, n) : n \in 0..MaxFetched}

Pending == [raised |-> FALSE, articles |-> << >>]

\* mutant: a feed that answered counts as a success
FeedOk_Answered(articles) == TRUE

\* line 153
FeedOk(articles) == Len(articles) > 0

\* feed_stats[name] = value
SetStat(stats, name, value) ==
    [x \in DOMAIN stats \cup {name} |-> IF x = name THEN value ELSE stats[x]]

InitFetch ==
    /\ DedupAtRest
    /\ UrlAtRest
    /\ KwAtRest
    /\ PrAtRest
    /\ TwAtRest
    /\ SumAtRest
    /\ ShAtRest
    /\ sources \in 0..MaxSources
    /\ workers \in 1..MaxWorkers
    /\ future = [s \in 1..sources |-> "queued"]
    /\ outcome = [s \in 1..sources |-> Pending]
    /\ all_articles = << >>
    /\ feed_stats = << >>
    /\ fetchPc = "running"

\* a thread of the pool that is free takes the first queued future
FetchStart ==
    /\ fetchPc = "running"
    /\ \E s \in 1..sources :
          /\ future[s] = "queued"
          /\ \A r \in 1..(s - 1) : future[r] # "queued"
          /\ Cardinality({r \in 1..sources : future[r] = "running"}) < workers
          /\ future' = [future EXCEPT ![s] = "running"]
    /\ UNCHANGED <<dedupVars, urlVars, kwVars, prVars, twVars, sumVars, shVars,
                   sources, workers, outcome, all_articles, feed_stats, fetchPc>>

\* fetch_articles (lines 51-115) ends in its thread
FetchFinish ==
    /\ fetchPc = "running"
    /\ \E s \in 1..sources :
          /\ future[s] = "running"
          /\ future' = [future EXCEPT ![s] = "finished"]
          /\ \E o \in Outcomes(s) : outcome' = [outcome EXCEPT ![s] = o]
    /\ UNCHANGED <<dedupVars, urlVars, kwVars, prVars, twVars, sumVars, shVars,
                   sources, workers, all_articles, feed_stats, fetchPc>>

\* lines 149-157: as_completed hands out a finished future
FetchCollect ==
    /\ fetchPc = "running"
    /\ \E s \in 1..sources :
          /\ future[s] = "finished"
          /\ future' = [future EXCEPT ![s] = "collected"]
          /\ IF outcome[s].raised
             THEN /\ feed_stats' = SetStat(feed_stats, s, FALSE)
                  /\ UNCHANGED all_articles
             ELSE /\ feed_stats' = SetStat(feed_stats, s, FeedOk(outcome[s].articles))
                  /\ all_articles' = all_articles \o outcome[s].articles
    /\ UNCHANGED <<dedupVars, urlVars, kwVars, prVars, twVars, sumVars, shVars,
                   sources, workers, outcome, fetchPc>>

\* line 159, after as_completed has handed out every future
FetchReturn ==
    /\ fetchPc = "running"
    /\ \A s \in 1..sources : future[s] = "collected"
    /\ fetchPc' = "done"
    /\ UNCHANGED <<dedupVars, urlVars, kwVars, prVars, twVars, sumVars, shVars,
                   sources, workers, future, outcome, all_articles, feed_stats>>

NextFetch == FetchStart \/ FetchFinish \/ FetchCollect \/ FetchReturn

SpecFetch == InitFetch /\ [][NextFetch]_vars

(***************************************************************************)
(* Several processes on one store resource (dedup.py 50-73: no lock is     *)
(* taken anywhere).  Processes 1 and 2 run at the same time; process 3 is  *)
(* the next run and starts when both have ended.  Each runs the calls of   *)
(* one run in their order: load (the constructor), prune, filter_new,      *)
(* save; a call that raises ends the process.  The clock stands still.     *)
(***************************************************************************)
Procs == 1..3

NextRun == 3

\* batches of at most one article
RunBatches == {b \in Batches : Len(b) <= 1}

NewProc == [pc |-> "new", seen |-> EmptyMap, pre |-> EmptyMap, batch |-> << >>,
            accepted |-> {}, stale |-> FALSE]

Ended(p) == proc[p].pc \in {"saved", "crashed"}

\* mutant: save adds its records to those the resource holds
Written_Merged(file, m) ==
    File("dict",
         LoadResult(file)
           \o SelectSeq(m, LAMBDA e : \A i \in DOMAIN LoadResult(file) :
                                         LoadResult(file)[i][1] # e[1]))

\* lines 72-73: the file is opened with "w" and the whole of _seen is dumped
Written(file, m) == File("dict", m)

InitShared ==
    /\ DedupAtRest
    /\ UrlAtRest
    /\ KwAtRest
    /\ PrAtRest
    /\ TwAtRest
    /\ SumAtRest
    /\ FetchAtRest
    /\ shared \in {File("missing", EmptyMap)} \cup {File("dict", d) : d \in DictFiles}
    /\ proc = [p \in Procs |-> NewProc]
    /\ writers = << >>

\* Deduplicator.__init__ / _load, lines 50-67
ShLoad ==
    \E p \in Procs :
       /\ proc[p].pc = "new"
       /\ p = NextRun => \A q \in Procs \ {p} : Ended(q)
       /\ proc' = [proc EXCEPT ![p].pc = IF LoadError(shared) = "none" THEN "loaded"
                                         ELSE "crashed",
                               ![p].seen = LoadResult(shared)]
       /\ UNCHANGED <<dedupVars, urlVars, kwVars, prVars, twVars, sumVars, fetchVars,
                      shared, writers>>

\* Deduplicator.prune, lines 75-89
ShPrune ==
    \E p \in Procs :
       /\ proc[p].pc = "loaded"
       /\ \E window_days \in 1..MaxWindow :
            proc' = [proc EXCEPT
                     ![p].pc = IF PruneError(proc[p].seen, 0, window_days) = "none"
                               THEN "pruned" ELSE "crashed",
                     ![p].seen = IF PruneError(proc[p].seen, 0, window_days) = "none"
                                 THEN Without(proc[p].seen, 0, window_days)
                                 ELSE proc[p].seen]
       /\ UNCHANGED <<dedupVars, urlVars, kwVars, prVars, twVars, sumVars, fetchVars,
                      shared, writers>>

\* Deduplicator.filter_new, lines 91-123
ShFilterNew ==
    \E p \in Procs :
       /\ proc[p].pc = "pruned"
       /\ \E articles \in RunBatches :
          \E run \in {FilterRun(proc[p].seen, articles, 0, 0)} :
            proc' = [proc EXCEPT
                     ![p].pc = IF run.raised = "none" THEN "filtered" ELSE "crashed",
                     ![p].pre = proc[p].seen,
                     ![p].seen = run.seen,
                     ![p].batch = articles,
                     ![p].accepted = {articles[i] : i \in Range(run.new_articles)}]
       /\ UNCHANGED <<dedupVars, urlVars, kwVars, prVars, twVars, sumVars, fetchVars,
                      shared, writers>>

\* Deduplicator.save, lines 69-73
ShSave ==
    \E p \in Procs :
       /\ proc[p].pc = "filtered"
       /\ shared' = Written(shared, proc[p].seen)
       /\ writers' = Append(writers, p)
       /\ proc' = [q \in Procs |->
                     IF q = p THEN [proc[q] EXCEPT !.pc = "saved"]
                     ELSE IF proc[q].pc \in {"loaded", "pruned", "filtered"}
                          THEN [proc[q] EXCEPT !.stale = TRUE]
                          ELSE proc[q]]
       /\ UNCHANGED <<dedupVars, urlVars, kwVars, prVars, twVars, sumVars, fetchVars>>

NextShared == ShLoad \/ ShPrune \/ ShFilterNew \/ ShSave

SpecShared == InitShared /\ [][NextShared]_vars


(***************************************************************************)
(* The claims.                                                             *)
(***************************************************************************)
\* the last call was filter_new and it returned
Returned == pc = "done" /\ lastOp = "filter_new" /\ raised = "none"

KeyOf(i) == NormKey[argBatch[i].link]

AcceptedPos == Range(accepted)

\* the keys of the store when article i is processed: those it held when
\* the call began and those recorded for the articles accepted before i
KeysAt(i) == Keys(pre) \cup {KeyOf(j) : j \in {k \in AcceptedPos : k < i}}

\* the working seen-titles list when article i is processed, as a set: the
\* titles of the records the store held when the call began (a record
\* without a title counts as the empty title) and the titles of the
\* articles accepted before i
TitlesAt(i) ==
    {SeenTitle(pre[k][2]).text : k \in {n \in DOMAIN pre : SeenTitle(pre[n][2]).kind = "str"}}
    \cup {argBatch[j].title : j \in {k \in AcceptedPos : k < i}}

\* C1: an article whose normalized URL is a key of the store when it is
\* processed (loaded from disk, or recorded earlier in the same call) is
\* not accepted.
C1_UrlDuplicateRejected ==
    Returned =>
        \A i \in DOMAIN argBatch : KeyOf(i) \in KeysAt(i) => i \notin AcceptedPos

\* C1 witness: a call returned in which an article was rejected only for
\* its URL: an earlier article of the call, with another link text and a
\* dissimilar title, was recorded under the same key.
C1_Witness ==
    /\ Returned
    /\ \E i, j \in DOMAIN argBatch :
          /\ j < i /\ j \in AcceptedPos /\ i \notin AcceptedPos
          /\ KeyOf(i) = KeyOf(j)
          /\ argBatch[i].link # argBatch[j].link
          /\ \A t \in TitlesAt(i) : ~titles_similar(argBatch[i].title, t)

\* article i is not in the store beforehand: neither its key nor a title
\* similar to its title is
Fresh(i) ==
    /\ KeyOf(i) \notin Keys(pre)
    /\ \A k \in DOMAIN pre : ~(SeenTitle(pre[k][2]).kind = "str"
                               /\ titles_similar(argBatch[i].title, SeenTitle(pre[k][2]).text))

\* no earlier article of the batch has the key of article i or a title
\* similar to its title
Unpreceded(i) ==
    \A k \in 1..(i - 1) :
        /\ KeyOf(k) # KeyOf(i)
        /\ ~titles_similar(argBatch[i].title, argBatch[k].title)

\* C2: of two articles of one call with identical titles and different
\* links, neither in the store beforehand (and the first not preceded in
\* the batch by an article that matches it), the first is accepted and the
\* second is rejected; and an article is never accepted after an accepted
\* article with the same title.
C2_BatchSelfConsistency ==
    Returned =>
        \A i, j \in DOMAIN argBatch :
            (i < j /\ argBatch[i].title = argBatch[j].title) =>
                /\ (argBatch[i].link # argBatch[j].link /\ Fresh(i) /\ Fresh(j) /\ Unpreceded(i))
                      => (i \in AcceptedPos /\ j \notin AcceptedPos)
                /\ i \in AcceptedPos => j \notin AcceptedPos

\* C2 witness: two articles with the same title, different links and
\* different keys, neither in the store; only the first was accepted.
C2_Witness ==
    /\ Returned
    /\ Len(argBatch) = 2
    /\ argBatch[1].title = argBatch[2].title
    /\ KeyOf(1) # KeyOf(2)
    /\ Fresh(1) /\ Fresh(2)
    /\ accepted = <<1>>

\* the claim's test: the ratio 2*M/T of the two titles, compared without
\* regard to case, is at least 9/10 (two empty titles have ratio 1)
RatioAtLeastNineTenths(a, b) ==
    LET x == Lower(a)
        y == Lower(b)
    IN  \/ Len(x) + Len(y) = 0
        \/ /\ Len(x) + Len(y) > 0
           /\ 20 * MatchSize(x, y, 1, Len(x), 1, Len(y)) >= 9 * (Len(x) + Len(y))

IsSubsequence(sub, whole) ==
    \E f \in [DOMAIN sub -> DOMAIN whole] :
        /\ \A k \in DOMAIN sub : sub[k] = whole[f[k]]
        /\ \A k, l \in DOMAIN sub : k < l => f[k] < f[l]

\* C4: the returned list is a subsequence of the batch: articles of the
\* batch, each position at most once, in the order of the batch.
C4_ResultIsSubsequence == Returned => IsSubsequence(ret, argBatch)

\* C4 witness: a call returned two different articles.
C4_Witness == Returned /\ Len(ret) = 2 /\ ret[1] # ret[2]

\* C5: when filter_new returns, the store maps the normalized link of every
\* returned article to a record with the article's title and, as seen_at,
\* the UTC time at which the article was accepted.
C5_AcceptedRecorded ==
    Returned =>
        /\ Len(ret) = Len(accepted)
        /\ \A k \in DOMAIN ret :
              LET key == normalize_url(ret[k].link)
              IN  /\ key \in Keys(seen)
                  /\ Cardinality({n \in DOMAIN seen : seen[n][1] = key}) = 1
                  /\ Get(seen, key).shape = "object"
                  /\ Get(seen, key).titleKind = "str"
                  /\ Get(seen, key).title = ret[k].title
                  /\ Get(seen, key).seenKind = "aware"
                  /\ Get(seen, key).seenAt =
                        (IF argTick # 0 /\ accepted[k] >= argTick THEN now ELSE callTime)

\* C5 witness: a call accepted one article before the clock ticked and one
\* after it, into a store that already held a record.
C5_Witness ==
    /\ Returned
    /\ Len(ret) = 2
    /\ argTick = 2
    /\ now = callTime + 1
    /\ pre # EmptyMap


PruneReturned == pc = "done" /\ lastOp = "prune" /\ raised = "none"

\* a record with a timestamp prune can compare with the clock
WellFormed(e) == e.shape = "object" /\ e.seenKind = "aware"

\* the age of a record when the last call began, and the window, in units
Age(e) == callTime - e.seenAt

WindowUnits == argWindow * UnitsPerDay

\* C6: after prune(w) every remaining record has now - seen_at <= w days,
\* and every record with now - seen_at > w days is gone, also when its age
\* lies strictly between w and w+1 days.
C6_PruneExact ==
    PruneReturned =>
        /\ \A k \in DOMAIN seen :
              WellFormed(seen[k][2]) => Age(seen[k][2]) <= WindowUnits
        /\ \A k \in DOMAIN pre :
              (WellFormed(pre[k][2]) /\ Age(pre[k][2]) > WindowUnits)
                  => pre[k][1] \notin Keys(seen)

\* C7: prune treats every entry whose seen_at is missing or unparsable
\* (absent, not ISO text, not text, without UTC offset, or the entry is no
\* object) as expired: it completes without raising, such entries are
\* gone, and the well-formed records inside the window stay.
C7_PruneRecovers ==
    (pc = "done" /\ lastOp = "prune") =>
        /\ raised = "none"
        /\ \A k \in DOMAIN pre :
              /\ ~WellFormed(pre[k][2]) => pre[k][1] \notin Keys(seen)
              /\ (WellFormed(pre[k][2]) /\ Age(pre[k][2]) <= WindowUnits)
                    => pre[k] \in Range(seen)

\* C8: constructing a Deduplicator never raises: a missing, empty,
\* unreadable, non-JSON or badly encoded resource gives the empty mapping.
C8_LoadNeverRaises ==
    (pc = "done" /\ lastOp = "load") =>
        /\ raised = "none"
        /\ alive
        /\ disk.kind \in {"missing", "empty", "unreadable", "badjson", "badutf8"}
              => seen = EmptyMap

\* C9: load rejects a content that is no mapping from key to record object
\* as a whole: after load every value of the store is an object.
C9_LoadRejectsShape ==
    (pc = "done" /\ lastOp = "load" /\ raised = "none") =>
        /\ disk.kind = "list" => seen = EmptyMap
        /\ \A k \in DOMAIN seen : seen[k][2].shape = "object"

\* C10: save raises when the resource cannot be written (the directory
\* cannot be created, or open or write fails) and leaves the in-memory
\* mapping as it was; it returns normally only with the mapping written;
\* missing directories are created and the save then succeeds.
C10_SaveFailsLoudly ==
    [][(pc = "idle" /\ lastOp' = "save") =>
          /\ seen' = seen
          /\ fs \in {"blocked", "readonly", "full"} => raised' # "none"
          /\ fs \in {"blocked", "readonly"} => disk' = disk
          /\ raised' = "none" => disk' = File("dict", seen)
          /\ fs = "noparent" => (fs' = "ok" /\ raised' = "none")]_vars

\* C10 witness: a save of a non-empty mapping has raised.
C10_Witness ==
    /\ pc = "done" /\ lastOp = "save"
    /\ raised = "OSError"
    /\ seen # EmptyMap
    /\ seen = pre

\* C11: save is an all-or-nothing overwrite: after every save step, also
\* one that fails part-way, the resource holds the complete previous
\* content or the complete new mapping, never an empty or truncated one.
C11_SaveAllOrNothing ==
    [][(pc = "idle" /\ lastOp' = "save") => disk' \in {disk, File("dict", seen)}]_vars

C13_OnlySaveWrites ==
    [][disk' # disk => (pc = "idle" /\ lastOp' = "save")]_vars

\* C13 witness: filter_new has accepted an article into a store loaded from
\* a document, and the document still holds the mapping that was loaded.
C13_Witness ==
    /\ Returned
    /\ accepted # << >>
    /\ disk.kind = "dict"
    /\ disk.data = pre
    /\ seen # pre

\* C14: an article with an empty link is never rejected by the URL check,
\* so it is accepted unless a title of the working list is similar to its
\* title; an article with an empty title is never rejected by the title
\* check, so it is accepted unless its key is in the store; and filter_new
\* does not raise on such articles.
C14_MalformedNeverMatches ==
    Returned =>
        \A i \in DOMAIN argBatch :
            /\ (argBatch[i].link = EmptyStr
                  /\ \A t \in TitlesAt(i) : ~RatioAtLeastNineTenths(argBatch[i].title, t))
                  => i \in AcceptedPos
            /\ (argBatch[i].title = EmptyStr /\ KeyOf(i) \notin KeysAt(i))
                  => i \in AcceptedPos

\* the two titles are equal once noise prefixes, bracket tags and source
\* suffixes are stripped (and something is left of them)
SameOnceStripped(a, b) ==
    normalize_title(a) = normalize_title(b) /\ Len(normalize_title(a)) > 0

\* C15: an article whose title equals a title of the working seen-titles
\* list once the source noise is stripped is rejected, also when its link is
\* new and the whole-string ratio of the two titles is below 0.9.
C15_NoiseTitlesDeduplicated ==
    Returned =>
        \A i \in DOMAIN argBatch :
            (\E t \in TitlesAt(i) : SameOnceStripped(argBatch[i].title, t))
                => i \notin AcceptedPos

\* the keyword sets of the two titles overlap as in the test of the
\* repository: a Jaccard score of at least 5/7 with at least 5 shared words
SameStory(a, b) ==
    LET k == keyword_similarity(a, b)
    IN  7 * k.num >= 5 * k.den /\ k.overlap >= 5

\* C16: an article whose title tells the story of a title of the working
\* seen-titles list in other words (keyword Jaccard score and overlap as in
\* the test) is rejected, also when its link is new and the whole-string
\* ratio is below 0.9; an article with a new link whose title shares no
\* keyword with a title of the list, and is not similar to one as a whole
\* string, is kept.
C16_KeywordDedup ==
    Returned =>
        \A i \in DOMAIN argBatch :
            /\ (\E t \in TitlesAt(i) : SameStory(argBatch[i].title, t))
                  => i \notin AcceptedPos
            /\ (/\ KeyOf(i) \notin KeysAt(i)
                /\ \A t \in TitlesAt(i) :
                      /\ keyword_similarity(argBatch[i].title, t).overlap = 0
                      /\ ~RatioAtLeastNineTenths(argBatch[i].title, t))
                  => i \in AcceptedPos

\* C17: the store never holds two records under one key; a filter_new call
\* that returns grows the store by exactly the number of articles it
\* returns, and the canonical keys of the returned articles differ from
\* each other and from every key the store held before the call.
C17_AtMostOnePerKey ==
    /\ \A m, n \in DOMAIN seen : seen[m][1] = seen[n][1] => m = n
    /\ Returned =>
          /\ Len(seen) = Len(pre) + Len(ret)
          /\ \A k, l \in DOMAIN ret :
                normalize_url(ret[k].link) = normalize_url(ret[l].link) => k = l
          /\ \A k \in DOMAIN ret : normalize_url(ret[k].link) \notin Keys(pre)

\* C17 witness: of two articles with one canonical key and different link
\* texts, offered to a store that already holds a record, one was accepted.
C17_Witness ==
    /\ Returned
    /\ pre # EmptyMap
    /\ Len(argBatch) = 2
    /\ argBatch[1].link # argBatch[2].link
    /\ KeyOf(1) = KeyOf(2)
    /\ accepted = <<1>>
    /\ Len(seen) = Len(pre) + 1

\* C18: filter_new leaves every record that exists as it is and where it is
\* (also when it raises), and leaves the whole store unchanged when it
\* accepts nothing; prune only deletes: what remains are records of before,
\* unchanged; save changes nothing in memory.
C18_RecordsNeverMutated ==
    /\ (pc = "done" /\ lastOp = "filter_new") =>
          /\ \A k \in DOMAIN pre : k \in DOMAIN seen /\ seen[k] = pre[k]
          /\ accepted = << >> => seen = pre
    /\ (pc = "done" /\ lastOp = "prune") =>
          \A k \in DOMAIN seen : seen[k] \in Range(pre)
    /\ (pc = "done" /\ lastOp = "save") => seen = pre

\* C18 witness: an article whose key is in the store under another title was
\* offered and rejected while another article of the call was accepted, and
\* the record under that key is the one of before.
C18_Witness ==
    /\ Returned
    /\ accepted # << >>
    /\ \E i \in DOMAIN argBatch :
          /\ KeyOf(i) \in Keys(pre)
          /\ Get(pre, KeyOf(i)).title # argBatch[i].title
          /\ Get(seen, KeyOf(i)) = Get(pre, KeyOf(i))

\* the URLs that differ from u at most in scheme, fragment, a leading
\* "www." on the host and a trailing slash on the path
Variants(u) ==
    { UrlOf(s, w, u.host, u.path, sl, u.query, f) :
        s \in Schemes, w \in BOOLEAN, sl \in BOOLEAN, f \in Fragments }

UpperChar(c) ==
    IF c \in Range(LowerChars)
    THEN UpperChars[CHOOSE i \in DOMAIN LowerChars : LowerChars[i] = c]
    ELSE c

\* the tracking keys as they are listed, and in capitals
TrackingKeysAnyCase ==
    TRACKING_PARAMS \cup {[i \in DOMAIN k |-> UpperChar(k[i])] : k \in TRACKING_PARAMS}

\* u + "&" + k + "=x"
Appended(u, k) == UrlText(u) \o <<"&">> \o k \o <<"=", "x">>

\* a URL whose query holds tracking parameters only normalizes to what the
\* URL without its query normalizes to, with no '?'
TrackingOnlyIsBare ==
    url.query \in TrackingOnlyQueries =>
        /\ "?" \notin Range(norm.text)
        /\ norm.text = normalize_url(UrlText([url EXCEPT !.query = EmptyStr]))

\* C20 as stated: for every URL u and every tracking key k, in any case,
\* normalize(u + "&" + k + "=x") = normalize(u); and a query of tracking
\* parameters only leaves bare host and path.
C20_TrackingRemoved ==
    norm.done =>
        /\ \A k \in TrackingKeysAnyCase : normalize_url(Appended(url, k)) = norm.text
        /\ TrackingOnlyIsBare

\* C20 as amended: the equation holds for every URL u that contains a '?' or
\* a '#', so that the appended text falls into the query or the fragment.
C20_TrackingRemoved_Amended ==
    norm.done =>
        /\ (url.query # EmptyStr \/ url.frag # EmptyStr) =>
              \A k \in TrackingKeysAnyCase : normalize_url(Appended(url, k)) = norm.text
        /\ TrackingOnlyIsBare

\* C20 witness: a URL with the query x=1&utm_source=t and no fragment was
\* normalized to a text that keeps x=1 and nothing else of the query.
C20_Witness ==
    /\ norm.done
    /\ url.query = <<"?", "x", "=", "1", "&", "u", "t", "m", "_", "s", "o", "u", "r", "c", "e", "=", "t">>
    /\ url.frag = EmptyStr
    /\ url.host = <<"a", ".", "i", "o">>
    /\ ~url.www
    /\ url.path = <<"/", "1">>
    /\ ~url.slash
    /\ norm.text = <<"/", "/", "a", ".", "i", "o", "/", "1", "?", "x", "=", "1">>


\* the host of the URL as it is written
HostText(u) == (IF u.www THEN <<"w", "w", "w", ".">> ELSE EmptyStr) \o u.host

\* the host is written with two or more leading "www." labels
RepeatedWww(u) == StartsWith(Lower(HostText(u)), <<"w", "w", "w", ".", "w", "w", "w", ".">>)

AfterMark(text) == IF Find(text, "?") = -1 THEN EmptyStr ELSE From(text, Find(text, "?") + 1)

\* the fields name=value of a query as pairs, empty values included
RECURSIVE FieldPairs(_)
FieldPairs(fields) ==
    IF Len(fields) = 0 THEN << >>
    ELSE LET f == Head(fields)
         IN  IF Find(f, "=") = -1 THEN FieldPairs(Tail(fields))
             ELSE << <<Upto(f, Find(f, "=")), From(f, Find(f, "=") + 1)>> >>
                    \o FieldPairs(Tail(fields))

AllPairs(query) == IF Len(query) = 0 THEN << >> ELSE FieldPairs(Split(query, "&"))

\* the pairs whose key is not a tracking key, in any case
Meaningful(pairs) ==
    SelectSeq(pairs, LAMBDA p : \A k \in TRACKING_PARAMS : Lower(p[1]) # k)

NonBlank(pairs) == SelectSeq(pairs, LAMBDA p : Len(p[2]) > 0)

\* the values of key k, in order
ValuesOf(pairs, k) ==
    LET mine == SelectSeq(pairs, LAMBDA p : p[1] = k)
    IN  [i \in DOMAIN mine |-> mine[i][2]]

\* the keys in order of first appearance
RECURSIVE FirstKeys(_)
FirstKeys(pairs) ==
    IF Len(pairs) = 0 THEN << >>
    ELSE <<Head(pairs)[1]>>
           \o FirstKeys(SelectSeq(Tail(pairs), LAMBDA p : p[1] # Head(pairs)[1]))

\* some key has different values in the two lists of pairs
ParamsDiffer(p, q) ==
    \E k \in Range(FirstKeys(p)) \cup Range(FirstKeys(q)) : ValuesOf(p, k) # ValuesOf(q, k)

\* the canonical form keeps exactly the parameters `kept`, and a URL with
\* the same host and path whose kept parameters differ has another form
KeepsParams(kept(_)) ==
    LET in  == kept(AllPairs(AfterMark(url.query)))
        out == AllPairs(AfterMark(norm.text))
    IN  /\ FirstKeys(out) = FirstKeys(in)
        /\ \A k \in Range(FirstKeys(in)) : ValuesOf(out, k) = ValuesOf(in, k)
        /\ \A q \in Queries :
              ParamsDiffer(kept(AllPairs(AfterMark(q))), in)
                  => normalize_url(UrlText([url EXCEPT !.query = q])) # norm.text

\* C22 as stated: every query key that is not in the tracking set survives
\* normalization with all its values, an empty value included, in the
\* relative order of the surviving keys, so two URLs with the same host and
\* path that differ in a non-tracking parameter normalize to different keys.
C22_MeaningfulParamsKept ==
    norm.done => KeepsParams(Meaningful)

MeaningfulNonBlank(pairs) == NonBlank(Meaningful(pairs))

\* C22 as amended: every query key that is not in the tracking set survives
\* with all its non-empty values (a parameter with an empty value is
\* dropped), in the relative order of the surviving keys, so two URLs with
\* the same host and path that differ in a non-empty value of a
\* non-tracking parameter normalize to different keys.
C22_MeaningfulParamsKept_Amended ==
    norm.done => KeepsParams(MeaningfulNonBlank)

\* C22 witness: //a.io/1?x=&y=2 was normalized to //a.io/1?y=2.
C22_Witness ==
    /\ norm.done
    /\ HostText(url) = <<"a", ".", "i", "o">>
    /\ url.path = <<"/", "1">>
    /\ ~url.slash
    /\ url.query = Q_EmptyValue
    /\ norm.text = <<"/", "/", "a", ".", "i", "o", "/", "1", "?", "y", "=", "2">>


\* the path of the URL as it is written
PathText(u) == u.path \o (IF u.slash THEN <<"/">> ELSE EmptyStr)

\* the path of the canonical form
CanonicalPath == UrlParse(norm.text).path

EndsInSlash(p) == Len(p) > 0 /\ p[Len(p)] = "/"

\* C23 as stated: normalize_url strips a single trailing '/' from the path:
\* a path ending in exactly one slash loses it, and a path ending in two or
\* more slashes loses only the last one.
C23_SingleSlashStripped ==
    norm.done =>
        CanonicalPath = IF EndsInSlash(PathText(url))
                        THEN Upto(PathText(url), Len(PathText(url)) - 1)
                        ELSE PathText(url)

\* C23 as amended: normalize_url strips every trailing '/' from the path: a
\* path ending in exactly one slash loses it, and a path ending in two or
\* more slashes loses them all, so that /a// and /a/ normalize to the same
\* key.
C23_SingleSlashStripped_Amended ==
    norm.done =>
        /\ Len(CanonicalPath) <= Len(PathText(url))
        /\ CanonicalPath = SubSeq(PathText(url), 1, Len(CanonicalPath))
        /\ ~EndsInSlash(CanonicalPath)
        /\ \A i \in (Len(CanonicalPath) + 1)..Len(PathText(url)) : PathText(url)[i] = "/"
        /\ \A sl \in BOOLEAN :
              normalize_url(UrlText([url EXCEPT !.slash = sl])) = norm.text

\* C23 witness: https://a.io/a// was normalized to //a.io/a.
C23_Witness ==
    /\ norm.done
    /\ url.scheme = <<"h", "t", "t", "p", "s", ":">>
    /\ HostText(url) = <<"a", ".", "i", "o">>
    /\ PathText(url) = <<"/", "a", "/", "/">>
    /\ url.query = EmptyStr
    /\ url.frag = EmptyStr
    /\ norm.text = <<"/", "/", "a", ".", "i", "o", "/", "a">>


\* the two scores are the same number
SameScore(x, y) == x.num * y.den = y.num * x.den

\* C24: keyword_similarity(a, b) returns (0.0, 0) if either title yields an
\* empty keyword set; otherwise it returns (|A n B| / |A u B|, |A n B|) for
\* the keyword sets A and B, so the score lies in [0, 1], is 1.0 exactly
\* when the (non-empty) keyword sets are equal, is symmetric in a and b, and
\* the overlap count exceeds the size of neither keyword set.
C24_KeywordSimilarity ==
    sim.done =>
        LET A == extract_keywords(titlePair[1])
            B == extract_keywords(titlePair[2])
            r == sim.value
        IN  /\ r.den > 0
            /\ IF A = {} \/ B = {}
               THEN r.num = 0 /\ r.overlap = 0
               ELSE /\ r.num * Cardinality(A \cup B) = Cardinality(A \cap B) * r.den
                    /\ r.overlap = Cardinality(A \cap B)
                    /\ (r.num = r.den) <=> (A = B)
            /\ 0 <= r.num /\ r.num <= r.den
            /\ r.overlap <= Cardinality(A) /\ r.overlap <= Cardinality(B)
            /\ SameScore(r, keyword_similarity(titlePair[2], titlePair[1]))
            /\ r.overlap = keyword_similarity(titlePair[2], titlePair[1]).overlap

\* C24 witness: the two wordings of one story, six keywords each and five
\* of them shared, gave the score 5/7 and the overlap 5.
C24_Witness ==
    /\ sim.done
    /\ titlePair = <<T_BugFound, T_BugSeen>>
    /\ sim.value = [num |-> 5, den |-> 7, overlap |-> 5]


\* the positions of the log where cmd was issued
Issued(cmd) == {i \in DOMAIN prLog : prLog[i].cmd = cmd}

\* cmd was issued and ended with return code 0
Succeeded(cmd) == \E i \in Issued(cmd) : prLog[i].out = "ok"

\* the steps of create_pr after the look at the remote
PrSteps == <<"checkout -b", "add digest", "add seen_db", "commit", "push", "pr create">>

\* position i of the log is a step that failed, or the look at the remote
\* that found the branch
FailedAt(i) ==
    \/ prLog[i].cmd = "ls-remote" /\ prLog[i].out = "heads"
    \/ prLog[i].cmd \in Range(PrSteps) /\ prLog[i].out # "ok"

\* C25: create_pr returns a value other than None only if the digest branch
\* was not found on the remote and branch creation, staging of both files,
\* commit, push and PR creation all succeeded; if the remote branch exists
\* or any of these steps fails it returns None and issues none of the later
\* steps.
C25_UrlOnlyOnFullSuccess ==
    /\ prPc = "done" =>
          /\ prRet \in {"url", "None"}
          /\ prRet = "url" <=>
                /\ prLog[1].out # "heads"
                /\ \A k \in DOMAIN PrSteps : Succeeded(PrSteps[k])
    /\ \A i \in DOMAIN prLog :
          FailedAt(i) => \A j \in DOMAIN prLog : j > i => prLog[j].cmd \notin Range(PrSteps)


\* C30: on every path on which the digest branch was created (commit
\* failure, push failure, PR-creation failure, or success), the last git
\* command create_pr issues before it ends is a checkout of main; on the
\* paths where the remote branch already exists or branch creation fails,
\* no add, commit, push or PR command is issued at all.
C30_WorkingBranchRestored ==
    prPc = "done" =>
        IF Succeeded("checkout -b")
        THEN prLog[Len(prLog)].cmd = "checkout main"
        ELSE \A i \in DOMAIN prLog : prLog[i].cmd \in {"ls-remote", "checkout -b"}

\* C30 witness: the branch was created, the commit failed, create_pr
\* returned None and its last command was the checkout of main.
C30_Witness ==
    /\ prPc = "done"
    /\ prRet = "None"
    /\ Succeeded("checkout -b")
    /\ \E i \in Issued("commit") : prLog[i].out = "fail"
    /\ Issued("push") = {}
    /\ prLog[Len(prLog)].cmd = "checkout main"


\* article a is matched by the store m: by its URL key or by a seen title
Matched(a, m) ==
    \/ UrlSeen(NormKey[a.link], m)
    \/ ScanTitles(a.title, SeenTitles(m)) = "dup"

\* C29: filter_new is idempotent on a batch: when filter_new(batch) has
\* returned and filter_new(batch) is called again on the same Deduplicator,
\* with no prune in between, the second call returns an empty list and
\* leaves the store unchanged; every article of the batch is by then
\* matched by URL key or by a seen title.
C29_FilterIdempotent ==
    Len(twCalls) = 2 =>
        /\ twCalls[2].raised = "none"
        /\ twCalls[2].ret = << >>
        /\ twCalls[2].post = twCalls[2].pre
        /\ twSeen = twCalls[1].post
        /\ \A i \in DOMAIN twBatch : Matched(twBatch[i], twCalls[2].pre)

\* C29 witness: the first call accepted both articles of a batch into a
\* store that was not empty, and the second call returned nothing.
C29_Witness ==
    /\ Len(twCalls) = 2
    /\ twCalls[1].pre # EmptyMap
    /\ Len(twCalls[1].ret) = 2
    /\ twCalls[1].ret = twBatch
    /\ twCalls[2].ret = << >>
    /\ twCalls[2].post = twCalls[1].post


\* the batch call at position i of the log was not used: it failed, or the
\* number of its summaries is not the size of the batch
BatchUnused(i) ==
    /\ sumLog[i].kind = "batch"
    /\ ~sumLog[i].ok \/ sumLog[i].count # sumLog[i].size

\* C27: summarize returns exactly one article per input article, in input
\* order, each equal to its input article in every field except possibly
\* summary; a batch call that fails or gives a number of summaries other
\* than the batch size is followed by one call per article of the batch,
\* and an article whose individual call fails too keeps its summary.
C27_BatchPreserved ==
    sumPc = "done" =>
        /\ Len(sumOut) = Len(sumIn)
        /\ \A k \in DOMAIN sumIn : Replace(sumOut[k], sumIn[k].summary) = sumIn[k]
        /\ \A i \in DOMAIN sumLog :
              BatchUnused(i) =>
                  \A k \in 1..sumLog[i].size :
                      /\ i + k \in DOMAIN sumLog
                      /\ sumLog[i + k].kind = "single"
                      /\ sumLog[i + k].first = sumLog[i].first + k - 1
        /\ \A i \in DOMAIN sumLog :
              (sumLog[i].kind = "single" /\ ~sumLog[i].ok)
                  => sumOut[sumLog[i].first] = sumIn[sumLog[i].first]

\* C27 witness: three articles in batches of two; the first batch call gave
\* one summary for two articles, the individual call for the first article
\* failed and the one for the second succeeded; the second batch call gave
\* its one summary.  Three articles came back, the first as it was.
C27_Witness ==
    /\ sumPc = "done"
    /\ Len(sumIn) = 3
    /\ sumSize = 2
    /\ Len(sumLog) = 4
    /\ sumLog[1].ok /\ sumLog[1].count = 1
    /\ ~sumLog[2].ok
    /\ sumLog[3].ok
    /\ sumLog[4].kind = "batch" /\ sumLog[4].ok /\ sumLog[4].count = 1
    /\ sumOut[1] = sumIn[1]
    /\ sumOut[2].summary.src = "single"
    /\ sumOut[3].summary.src = "batch"


\* how often article a occurs in all_articles
Occurrences(a) == Cardinality({i \in DOMAIN all_articles : all_articles[i] = a})

\* the articles of source s in all_articles, in order
OfSource(s) == SelectSeq(all_articles, LAMBDA a : a.source_name = s)

\* C28: when fetch_all_articles returns, feed_stats has an entry for every
\* source, True exactly when the fetch of that source returned at least one
\* article and False when it returned none or raised, and all_articles
\* holds every article returned by every fetch exactly once, whatever the
\* order in which the fetches ended.
C28_FetchComplete ==
    fetchPc = "done" =>
        /\ DOMAIN feed_stats = 1..sources
        /\ \A s \in 1..sources :
              /\ feed_stats[s] = (~outcome[s].raised /\ Len(outcome[s].articles) > 0)
              /\ OfSource(s) = outcome[s].articles
              /\ \A k \in DOMAIN outcome[s].articles : Occurrences(outcome[s].articles[k]) = 1

\* C28 witness: three sources; the third was collected before the first;
\* the first returned two articles, the second raised and the third
\* returned one article.
C28_Witness ==
    /\ fetchPc = "done"
    /\ sources = 3
    /\ outcome[1] = Returns(1, 2)
    /\ outcome[2] = Raises
    /\ outcome[3] = Returns(3, 1)
    /\ all_articles = <<Fetched(3, 1), Fetched(1, 1), Fetched(1, 2)>>
    /\ feed_stats[1] /\ ~feed_stats[2] /\ feed_stats[3]


\* processes 1 and 2 have both saved, having both loaded before either
\* saved: the one that saved second had loaded before the first save
BothSavedStale ==
    /\ Len(writers) >= 2
    /\ proc[writers[2]].stale

\* the article was accepted by the process that saved first, and the
\* process that saved last holds no record under its key
AcceptedOnlyByLoser(a) ==
    /\ a \in proc[writers[1]].accepted
    /\ NormKey[a.link] \notin Keys(proc[writers[2]].seen)

\* last write wins: after both saves the resource holds exactly the mapping
\* of the process that saved last, and the records accepted only by the
\* other process are not in it
LastWriteWins ==
    (BothSavedStale /\ Len(writers) = 2) =>
        /\ shared = File("dict", proc[writers[2]].seen)
        /\ \A a \in proc[writers[1]].accepted :
              AcceptedOnlyByLoser(a) => NormKey[a.link] \notin Keys(LoadResult(shared))

\* the next run has been given article a and its filter_new has returned
NextRunGiven(a) ==
    /\ proc[NextRun].pc \in {"filtered", "saved"}
    /\ proc[NextRun].batch = <<a>>

\* single writer: when no process has saved between the load and the save
\* of another, every record accepted by a process that saved is in the
\* resource
NothingLostInOrder ==
    (\A p \in Range(writers) : ~proc[p].stale) =>
        \A p \in Range(writers) : \A a \in proc[p].accepted :
            /\ NormKey[a.link] \in Keys(LoadResult(shared))
            /\ Get(LoadResult(shared), NormKey[a.link]).title = a.title

=============================================================================
